---- MODULE Spec2Model ----
(***************************************************************************)
(* Golden model of the router of a 2D core array: cell memory, primitive   *)
(* and router-table codecs, the send/recv engine and the round-robin       *)
(* scheduler of NoCSimulator.                                              *)
(*                                                                         *)
(* A 32-byte cell and a 128-bit packet are sequences of bytes in           *)
(* big-endian order (element 1 is the most significant byte), which is     *)
(* what int.from_bytes(..., "big") / to_bytes(32, "big") use.              *)
(***************************************************************************)
EXTENDS Integers, Sequences, FiniteSets, TLC

\* ------------------------------------------------------------------------
\* Program constants
\* ------------------------------------------------------------------------
MEM_CELL_BYTES == 32

num_cells == 24576

PRIM_KIND_STOP == 3

\* ------------------------------------------------------------------------
\* Words as big-endian byte sequences
\* ------------------------------------------------------------------------
ZeroWord(n) == [i \in 1..n |-> 0]

ZeroCell == ZeroWord(MEM_CELL_BYTES)

\* bit k (LSB = bit 0) of the integer a big-endian byte sequence stands for
BitOf(word, k) == (word[Len(word) - (k \div 8)] \div (2 ^ (k % 8))) % 2

\* int(pic[lo+width : lo]) : the unsigned value of bits lo .. lo+width-1
RECURSIVE GetBits(_, _, _)
GetBits(word, lo, width) ==
    IF width = 0 THEN 0
    ELSE BitOf(word, lo) + 2 * GetBits(word, lo + 1, width - 1)

\* bit k of a word built by slice assignments.  fields lists them in
\* program order, each << lo, width, val >> standing for
\* pic[lo+width : lo] = val; the last assignment covering a bit decides it,
\* and a bit no assignment covers is 0
FieldBit(fields, k) ==
    LET hits == {j \in 1..Len(fields) :
                    fields[j][1] <= k /\ k < fields[j][1] + fields[j][2]}
    IN  IF hits = {} THEN 0
        ELSE LET j == CHOOSE j \in hits : \A j2 \in hits : j2 <= j
             IN  (fields[j][3] \div (2 ^ (k - fields[j][1]))) % 2

\* int(pic).to_bytes(n, "big") of the word the slice assignments build
WordOf(n, fields) ==
    [i \in 1..n |->
        FieldBit(fields, 8 * (n - i))
        + 2 * FieldBit(fields, 8 * (n - i) + 1)
        + 4 * FieldBit(fields, 8 * (n - i) + 2)
        + 8 * FieldBit(fields, 8 * (n - i) + 3)
        + 16 * FieldBit(fields, 8 * (n - i) + 4)
        + 32 * FieldBit(fields, 8 * (n - i) + 5)
        + 64 * FieldBit(fields, 8 * (n - i) + 6)
        + 128 * FieldBit(fields, 8 * (n - i) + 7)]

IsZeroWord(word) == \A i \in 1..Len(word) : word[i] = 0

\* a decode that masks the field and leaves it unsigned
no_sign_extend(value, bits) == value % (2 ^ bits)

\* router_table._sign_extend
sign_extend(value, bits) ==
    LET sign_bit == 2 ^ (bits - 1)
        v == value % (2 ^ bits)
    IN  IF v >= sign_bit THEN v - 2 * sign_bit ELSE v

\* ------------------------------------------------------------------------
\* Cell memory (memory.py).  A memory is the dict _cells: a function from
\* the materialized cell addresses to 32-byte cells.
\* ------------------------------------------------------------------------
EmptyMem == [a \in {} |-> ZeroCell]

\* a bounds check that forgets the lower bound
bounds_check_upper_only(addr) == addr < num_cells

bounds_check_cell(addr) == 0 <= addr /\ addr < num_cells

\* read_cell past its bounds check: unmapped cells read as zeros
read_cell(m, addr) == IF addr \in DOMAIN m THEN m[addr] ELSE ZeroCell

\* the dict assignment _cells[addr] = buf
StoreCell(m, addr, buf) ==
    [a \in (DOMAIN m) \cup {addr} |-> IF a = addr THEN buf ELSE m[a]]

\* a segment write that clears the rest of the cell
write_8B_clearing_cell(m, cell_addr, segment_idx, data8) ==
    StoreCell(m, cell_addr,
        [i \in 1..MEM_CELL_BYTES |->
            IF i > segment_idx * 8 /\ i <= segment_idx * 8 + 8
            THEN data8[i - segment_idx * 8] ELSE 0])

\* write_8B past its checks: one 8-byte segment of a cell is overwritten
write_8B(m, cell_addr, segment_idx, data8) ==
    LET base == read_cell(m, cell_addr)
        start == segment_idx * 8
    IN  StoreCell(m, cell_addr,
            [i \in 1..MEM_CELL_BYTES |->
                IF i > start /\ i <= start + 8 THEN data8[i - start]
                ELSE base[i]])

\* a byte write that lands one byte further on
write_1B_at_next(m, cell_addr, byte_idx, value) ==
    StoreCell(m, cell_addr,
        [i \in 1..MEM_CELL_BYTES |->
            IF i = byte_idx + 2 THEN value ELSE read_cell(m, cell_addr)[i]])

\* write_1B past its checks: one byte of a cell is overwritten
write_1B(m, cell_addr, byte_idx, value) ==
    LET base == read_cell(m, cell_addr)
    IN  StoreCell(m, cell_addr,
            [i \in 1..MEM_CELL_BYTES |->
                IF i = byte_idx + 1 THEN value ELSE base[i]])

\* a read that fetches the cell through _get_cell_buf
read_cell_allocating(m, addr) ==
    IF ~bounds_check_cell(addr)
    THEN [ok |-> FALSE, mem |-> m, value |-> << >>]
    ELSE [ok |-> TRUE, mem |-> StoreCell(m, addr, read_cell(m, addr)),
          value |-> read_cell(m, addr)]

\* CoreMemory.read_cell as a method call: [ok, mem, value], mem the memory
\* after the call; ok is FALSE when the bounds check raised IndexError
read_cell_call(m, addr) ==
    IF ~bounds_check_cell(addr)
    THEN [ok |-> FALSE, mem |-> m, value |-> << >>]
    ELSE [ok |-> TRUE, mem |-> m, value |-> read_cell(m, addr)]

\* CoreMemory.read_bytes_linear as a method call: [ok, mem, value]
RECURSIVE read_bytes_linear_call(_, _, _, _)
read_bytes_linear_call(m, start_cell_addr, start_byte_offset, length) ==
    IF length <= 0 THEN [ok |-> TRUE, mem |-> m, value |-> << >>]
    ELSE LET avail == MEM_CELL_BYTES - start_byte_offset
             chunk == IF length < avail THEN length ELSE avail
             r     == read_cell_call(m, start_cell_addr)
             rest  == read_bytes_linear_call(r.mem, start_cell_addr + 1, 0,
                                             length - chunk)
         IN  IF ~r.ok THEN [ok |-> FALSE, mem |-> r.mem, value |-> << >>]
             ELSE [ok    |-> rest.ok,
                   mem   |-> rest.mem,
                   value |-> SubSeq(r.value, start_byte_offset + 1,
                                    start_byte_offset + chunk) \o rest.value]

\* a split that counts the segments of a cell from its last one
iter_cells_span_segments_reversed(a_8b) == << a_8b \div 4, 3 - (a_8b % 4) >>

\* a split that rounds towards zero, as C's / and % do
iter_cells_span_truncating(a_8b) ==
    IF a_8b >= 0 THEN << a_8b \div 4, a_8b % 4 >>
    ELSE << -((-a_8b) \div 4), -((-a_8b) % 4) >>

\* a >> 2, a & 3 on Python integers (floor shift, non-negative mask)
iter_cells_span_from_A_8B(a_8b) == << a_8b \div 4, a_8b % 4 >>

\* a >> 5, a & 0x1F
iter_cells_span_from_A_1B(a_1b) == << a_1b \div 32, a_1b % 32 >>

\* ------------------------------------------------------------------------
\* Options: None is the empty sequence, a present value v is << v >>
\* ------------------------------------------------------------------------
None == << >>

Some(v) == << v >>

\* ------------------------------------------------------------------------
\* Router-table entries (router_table.py)
\* ------------------------------------------------------------------------
\* RouterTableEntry.group_size
group_size(rte) == IF rte.const_raw = 0 THEN 1 ELSE rte.const_raw + 1

\* RouterTableEntry.from_packet128: a 16-byte packet to its fields
from_packet128(packet) ==
    [ s         |-> GetBits(packet, 0, 1),
      t         |-> GetBits(packet, 1, 1),
      e         |-> GetBits(packet, 2, 1),
      q         |-> GetBits(packet, 3, 1),
      y         |-> sign_extend(GetBits(packet, 6, 6), 6),
      x         |-> sign_extend(GetBits(packet, 12, 6), 6),
      a0        |-> GetBits(packet, 18, 14),
      cnt       |-> GetBits(packet, 32, 12),
      a_offset  |-> sign_extend(GetBits(packet, 44, 12), 12),
      const_raw |-> GetBits(packet, 56, 7),
      handshake |-> (GetBits(packet, 63, 1) = 1),
      tag_id    |-> GetBits(packet, 64, 8),
      en        |-> (GetBits(packet, 72, 1) = 1) ]

\* encode_packet_from_fields: a dict of fields to a 16-byte packet; every
\* field is masked to its width (two's complement for the signed ones) and
\* or-ed into its own bit range of a zero word
encode_packet_from_fields(fields) ==
    WordOf(16, << << 0, 1, fields.s % 2 >>,
                  << 1, 1, fields.t % 2 >>,
                  << 2, 1, fields.e % 2 >>,
                  << 3, 1, fields.q % 2 >>,
                  << 6, 6, fields.y % 64 >>,
                  << 12, 6, fields.x % 64 >>,
                  << 18, 14, fields.a0 % 16384 >>,
                  << 32, 12, fields.cnt % 4096 >>,
                  << 44, 12, fields.a_offset % 4096 >>,
                  << 56, 7, fields.const_raw % 128 >>,
                  << 63, 1, IF fields.handshake THEN 1 ELSE 0 >>,
                  << 64, 8, fields.tag_id % 256 >>,
                  << 72, 1, IF fields.en THEN 1 ELSE 0 >> >>)

\* a split that returns the upper half first
decode_two_packets_swapped(cell_bytes) ==
    << SubSeq(cell_bytes, 1, 16), SubSeq(cell_bytes, 17, 32) >>

\* decode_two_packets_from_cell: << lower128, upper128 >>
decode_two_packets_from_cell(cell_bytes) ==
    << SubSeq(cell_bytes, 17, 32), SubSeq(cell_bytes, 1, 16) >>

\* parse_router_table_from_memory: [ok, entries]; ok is FALSE when a
\* read_cell of the table raises IndexError
RECURSIVE ParseTableCells(_, _, _, _, _)
ParseTableCells(m, base_addr, message_num, i, entries) ==
    IF i >= (message_num + 1) \div 2
    THEN [ok |-> TRUE, entries |-> SubSeq(entries, 1, message_num)]
    ELSE IF ~bounds_check_cell(base_addr + i)
    THEN [ok |-> FALSE, entries |-> entries]
    ELSE LET two == decode_two_packets_from_cell(read_cell(m, base_addr + i))
             e1  == Append(entries, from_packet128(two[1]))
             e2  == IF Len(e1) < message_num
                    THEN Append(e1, from_packet128(two[2])) ELSE e1
         IN  ParseTableCells(m, base_addr, message_num, i + 1, e2)

parse_router_table_from_memory(m, base_addr, message_num) ==
    ParseTableCells(m, base_addr, message_num, 0, << >>)

\* a table writer that puts the first packet of a pair in the upper half
RECURSIVE write_router_table_high_then_low(_, _, _)
write_router_table_high_then_low(m, base_addr, packets) ==
    IF Len(packets) = 0 THEN m
    ELSE LET low  == packets[1]
             up   == IF Len(packets) >= 2 THEN packets[2] ELSE ZeroWord(16)
             rest == IF Len(packets) >= 2
                     THEN SubSeq(packets, 3, Len(packets)) ELSE << >>
         IN  write_router_table_high_then_low(
                 StoreCell(m, base_addr, low \o up), base_addr + 1, rest)

\* write_router_table_to_memory: two packets per cell, low then high; the
\* cells are stored straight into _cells
RECURSIVE write_router_table_to_memory(_, _, _)
write_router_table_to_memory(m, base_addr, packets) ==
    IF Len(packets) = 0 THEN m
    ELSE LET low  == packets[1]
             up   == IF Len(packets) >= 2 THEN packets[2] ELSE ZeroWord(16)
             rest == IF Len(packets) >= 2
                     THEN SubSeq(packets, 3, Len(packets)) ELSE << >>
         IN  write_router_table_to_memory(
                 StoreCell(m, base_addr, up \o low), base_addr + 1, rest)

\* [encode_packet_from_fields(m) for m in messages]
PacketsOf(messages) ==
    [i \in 1..Len(messages) |-> encode_packet_from_fields(messages[i])]

\* ------------------------------------------------------------------------
\* Primitives (prims.py)
\* ------------------------------------------------------------------------
\* a send half that stores message_num as it is
SendFieldsStoringN(sp) ==
    << << 0, 4, 6 >>,
       << 4, 1, 1 >>,
       << 8, 8, sp.deps >>,
       << 48, 16, sp.send_addr >>,
       << 168, 1, sp.cell_or_neuron >>,
       << 176, 8, sp.message_num % 256 >>,
       << 240, 16, sp.para_addr >> >>

\* the slice assignments of the send half
SendFields(sp) ==
    << << 0, 4, 6 >>,
       << 4, 1, 1 >>,
       << 8, 8, sp.deps >>,
       << 48, 16, sp.send_addr >>,
       << 168, 1, sp.cell_or_neuron >>,
       << 176, 8, IF sp.message_num - 1 > 0 THEN sp.message_num - 1 ELSE 0 >>,
       << 240, 16, sp.para_addr >> >>

\* the slice assignments of the recv half
RecvFields(rp) ==
    << << 0, 4, 6 >>,
       << 5, 1, 1 >>,
       << 8, 8, rp.deps >>,
       << 32, 16, rp.recv_addr >>,
       << 172, 2, rp.CXY >>,
       << 192, 6, rp.mc_x % 64 >>,
       << 184, 6, rp.mc_y % 64 >>,
       << 200, 8, rp.tag_id >>,
       << 208, 8, rp.end_num >> >>

\* pic[lo+width : lo] = val raises ValueError when val does not fit in
\* width bits (the checks of to_unsigned_bits are no tighter: deps is
\* checked against 16 bits and assigned to an 8-bit slice)
SliceOverflows(fields) ==
    \E j \in 1..Len(fields) :
        ~(0 <= fields[j][3] /\ fields[j][3] < 2 ^ fields[j][2])

\* encode_prim_cell raises instead of returning a cell
encode_prim_raises(op) ==
    /\ op.kind # "stop"
    /\ \/ op.send # None /\ SliceOverflows(SendFields(op.send[1]))
       \/ op.recv # None /\ SliceOverflows(RecvFields(op.recv[1]))

\* encode_prim_cell: intbv slice assignments on a zero 256-bit word
encode_prim_cell(op) ==
    IF op.kind = "stop"
    THEN WordOf(MEM_CELL_BYTES, << << 0, 4, 0 >>, << 4, 4, 3 >> >>)
    ELSE WordOf(MEM_CELL_BYTES,
             (IF op.send # None THEN SendFields(op.send[1]) ELSE << >>)
             \o (IF op.recv # None THEN RecvFields(op.recv[1]) ELSE << >>))

\* decode_prim_cell: None for a terminator cell, else the PrimOp
decode_prim_cell(cell_bytes) ==
    IF IsZeroWord(cell_bytes) THEN None
    ELSE IF GetBits(cell_bytes, 0, 8) = PRIM_KIND_STOP
    THEN Some([kind |-> "stop", send |-> None, recv |-> None,
               stop |-> TRUE, mem_addr |-> None])
    ELSE
      LET send_valid == GetBits(cell_bytes, 4, 1) = 1
          recv_valid == GetBits(cell_bytes, 5, 1) = 1
          send_prim ==
            [ deps           |-> GetBits(cell_bytes, 8, 8),
              cell_or_neuron |-> GetBits(cell_bytes, 168, 1),
              neuron_type    |-> 0,
              message_num    |-> GetBits(cell_bytes, 176, 8) + 1,
              send_addr      |-> GetBits(cell_bytes, 48, 16),
              para_addr      |-> GetBits(cell_bytes, 240, 16),
              messages       |-> << >> ]
          recv_prim ==
            [ deps        |-> GetBits(cell_bytes, 8, 8),
              recv_addr   |-> GetBits(cell_bytes, 32, 16),
              tag_id      |-> GetBits(cell_bytes, 200, 8),
              end_num     |-> GetBits(cell_bytes, 208, 8),
              relay_mode  |-> GetBits(cell_bytes, 172, 2),
              CXY         |-> 0,
              mc_y        |-> GetBits(cell_bytes, 184, 6),
              mc_x        |-> GetBits(cell_bytes, 192, 6),
              use_end_num |-> FALSE ]
      IN  IF ~send_valid /\ ~recv_valid THEN None
          ELSE Some([kind |-> IF send_valid THEN "send" ELSE "recv",
                     send |-> IF send_valid THEN Some(send_prim) ELSE None,
                     recv |-> IF recv_valid THEN Some(recv_prim) ELSE None,
                     stop |-> FALSE, mem_addr |-> None])

\* ------------------------------------------------------------------------
\* Construction: seeding a core's memory and parsing its queue (core.py)
\* ------------------------------------------------------------------------
\* first pass of _seed_config_into_memory: primitives with an explicit
\* mem_addr; returns << memory, occupied >>
RECURSIVE SeedExplicit(_, _, _)
SeedExplicit(m, occupied, ops) ==
    IF Len(ops) = 0 THEN << m, occupied >>
    ELSE LET op == Head(ops)
         IN  IF op.mem_addr # None
             THEN SeedExplicit(
                      StoreCell(m, op.mem_addr[1], encode_prim_cell(op)),
                      occupied \cup {op.mem_addr[1]}, Tail(ops))
             ELSE SeedExplicit(m, occupied, Tail(ops))

\* the sequential pass without its skip: the next address as it stands
SkipNothing(occupied, next_addr) == next_addr

\* while next_addr in occupied and next_addr < num_cells: next_addr += 1
\* (the loop's exit value: the first address from next_addr on that is free
\* or is num_cells, everything before it being occupied)
SkipOccupied(occupied, next_addr) ==
    IF next_addr >= num_cells THEN next_addr
    ELSE CHOOSE a \in next_addr..num_cells :
             /\ a \notin occupied \/ a = num_cells
             /\ \A b \in next_addr..(a - 1) : b \in occupied

\* second pass: the remaining primitives, sequentially from cell 0
RECURSIVE SeedSequential(_, _, _, _)
SeedSequential(m, occupied, ops, next_addr) ==
    IF Len(ops) = 0 THEN m
    ELSE LET op == Head(ops)
         IN  IF op.mem_addr = None
             THEN LET addr == SkipOccupied(occupied, next_addr)
                  IN  IF addr >= num_cells THEN m
                      ELSE SeedSequential(
                               StoreCell(m, addr, encode_prim_cell(op)),
                               occupied \cup {addr}, Tail(ops), addr + 1)
             ELSE SeedSequential(m, occupied, Tail(ops), next_addr)

\* third pass: inline messages written as router tables at para_addr
RECURSIVE SeedTables(_, _)
SeedTables(m, ops) ==
    IF Len(ops) = 0 THEN m
    ELSE LET op == Head(ops)
         IN  IF op.send # None /\ Len(op.send[1].messages) > 0
             THEN SeedTables(
                      write_router_table_to_memory(m, op.send[1].para_addr,
                          PacketsOf(op.send[1].messages)), Tail(ops))
             ELSE SeedTables(m, Tail(ops))

seed_config_into_memory(m, cfg_queue) ==
    LET occupied0 == {a \in DOMAIN m : ~IsZeroWord(m[a])}
        first     == SeedExplicit(m, occupied0, cfg_queue)
        second    == SeedSequential(first[1], first[2], cfg_queue, 0)
    IN  SeedTables(second, cfg_queue)

\* _parse_prims_from_memory: decode cells 0, 1, ... up to a terminator
RECURSIVE ParseFrom(_, _, _)
ParseFrom(m, addr, prims) ==
    IF ~(addr < num_cells) THEN prims
    ELSE LET op == decode_prim_cell(read_cell(m, addr))
         IN  IF op = None THEN prims
             ELSE ParseFrom(m, addr + 1, Append(prims, op[1]))

\* a parse that starts at cell 1
parse_prims_from_cell_one(m) == ParseFrom(m, 1, << >>)

parse_prims_from_memory(m) == ParseFrom(m, 0, << >>)

\* ------------------------------------------------------------------------
\* Engine helpers (core.py)
\* ------------------------------------------------------------------------
\* an acceptor search that forgets to compare the tag
find_recv_any_tag(queue, tag) ==
    \E i \in 1..Len(queue) : queue[i].recv # None

\* an acceptor search that returns after looking at the first primitive
find_recv_at_head(queue, tag) ==
    /\ Len(queue) > 0
    /\ queue[1].recv # None
    /\ queue[1].recv[1].tag_id = tag

\* an acceptor search that never finds a Recv
find_recv_none(queue, tag) == FALSE

\* _find_recv_acceptor: some primitive of the queue has a Recv half of tag
find_recv_acceptor(queue, tag) ==
    \E i \in 1..Len(queue) :
        queue[i].recv # None /\ queue[i].recv[1].tag_id = tag

\* a base taken from the last Recv of the tag
dst_core_offset_last_recv(queue, rte, cell_delta) ==
    LET hits == {i \in 1..Len(queue) :
                    queue[i].recv # None
                    /\ queue[i].recv[1].tag_id = rte.tag_id}
    IN  (IF hits = {} THEN 0
         ELSE queue[CHOOSE i \in hits : \A j \in hits : j <= i]
                  .recv[1].recv_addr) + cell_delta

\* dst_core_offset_cell: recv_addr of the first Recv of the tag, else 0
dst_core_offset_cell(queue, rte, cell_delta) ==
    LET hits == {i \in 1..Len(queue) :
                    queue[i].recv # None
                    /\ queue[i].recv[1].tag_id = rte.tag_id}
        recv_base == IF hits = {} THEN 0
                     ELSE queue[CHOOSE i \in hits : \A j \in hits : i <= j]
                              .recv[1].recv_addr
    IN  recv_base + cell_delta

\* SendPrim.normalized_message_num (0 is treated as 1)
normalized_message_num(sp) ==
    IF sp.message_num = 0 THEN 1 ELSE sp.message_num

\* rte.cnt if rte.cnt != 0 else 1
NormCnt(rte) == IF rte.cnt # 0 THEN rte.cnt ELSE 1

\* per-message counts that leave out the messages with EN=0
MsgCountsOfEnabled(rtes) ==
    [i \in 1..Len(rtes) |-> IF rtes[i].en THEN NormCnt(rtes[i]) ELSE 0]

\* msg_counts = [(r.cnt if r.cnt != 0 else 1) for r in rtes]
MsgCounts(rtes) == [i \in 1..Len(rtes) |-> NormCnt(rtes[i])]

\* sum(msg_counts[:msg_idx])
RECURSIVE SumPrefix(_, _)
SumPrefix(counts, n) ==
    IF n = 0 THEN 0 ELSE counts[n] + SumPrefix(counts, n - 1)

\* read_bytes_linear: [ok, bytes]; ok is FALSE when a read_cell raises
RECURSIVE read_bytes_linear(_, _, _, _)
read_bytes_linear(m, start_cell_addr, start_byte_offset, length) ==
    IF length <= 0 THEN [ok |-> TRUE, bytes |-> << >>]
    ELSE IF ~bounds_check_cell(start_cell_addr)
    THEN [ok |-> FALSE, bytes |-> << >>]
    ELSE LET avail == MEM_CELL_BYTES - start_byte_offset
             chunk == IF length < avail THEN length ELSE avail
             data  == read_cell(m, start_cell_addr)
             rest  == read_bytes_linear(m, start_cell_addr + 1, 0,
                                        length - chunk)
         IN  [ok    |-> rest.ok,
              bytes |-> SubSeq(data, start_byte_offset + 1,
                               start_byte_offset + chunk) \o rest.bytes]

\* ------------------------------------------------------------------------
\* Destination address walks.  mems maps a core coordinate to its memory;
\* queue is the destination core's prim_queue.  Each walk returns
\* [ok, mems (, a)]: ok is FALSE when a bounds check raised, and mems then
\* holds the writes made before the failing one.
\* ------------------------------------------------------------------------
\* for seg in range(4): write one 8-byte segment and step A by one
RECURSIVE WriteCellSegs(_, _, _, _, _, _, _)
WriteCellSegs(mems, dst, queue, rte, cell_data, seg, a) ==
    IF seg = 4 THEN [ok |-> TRUE, mems |-> mems, a |-> a]
    ELSE LET span == iter_cells_span_from_A_8B(a)
             dst_cell_addr == dst_core_offset_cell(queue, rte, span[1])
         IN  IF ~bounds_check_cell(dst_cell_addr)
             THEN [ok |-> FALSE, mems |-> mems, a |-> a]
             ELSE WriteCellSegs(
                      [mems EXCEPT ![dst] = write_8B(@, dst_cell_addr,
                          span[2], SubSeq(cell_data, seg * 8 + 1, seg * 8 + 8))],
                      dst, queue, rte, cell_data, seg + 1, a + 1)

\* a step that puts the next group A_offset after the first unit of the
\* group just completed
GroupStepFromFirst(rte, done_units, a) ==
    IF done_units % group_size(rte) = 0
    THEN a - group_size(rte) + rte.a_offset ELSE a

\* the A_offset/Const step after a completed unit
GroupStep(rte, done_units, a) ==
    IF done_units % group_size(rte) = 0 THEN a + (rte.a_offset - 1) ELSE a

\* _send_cell_mode: cell i of the message is read, then written
RECURSIVE SendCellLoop(_, _, _, _, _, _, _, _)
SendCellLoop(mems, src, dst, queue, rte, src_cell_base, i, a) ==
    IF i >= NormCnt(rte) THEN [ok |-> TRUE, mems |-> mems]
    ELSE IF ~bounds_check_cell(src_cell_base + i)
    THEN [ok |-> FALSE, mems |-> mems]
    ELSE LET r == WriteCellSegs(mems, dst, queue, rte,
                      read_cell(mems[src], src_cell_base + i), 0, a)
         IN  IF ~r.ok THEN [ok |-> FALSE, mems |-> r.mems]
             ELSE SendCellLoop(r.mems, src, dst, queue, rte, src_cell_base,
                               i + 1, GroupStep(rte, i + 1, r.a))

send_cell_mode(mems, src, dst, queue, sp, rte, msg_idx, msg_counts) ==
    SendCellLoop(mems, src, dst, queue, rte,
                 sp.send_addr + SumPrefix(msg_counts, msg_idx), 0, rte.a0)

\* _send_neuron_mode: one byte is read, then written
RECURSIVE SendNeuronLoop(_, _, _, _, _, _, _, _, _)
SendNeuronLoop(mems, src, dst, queue, rte, start_cell, start_off, remaining_n, a) ==
    IF remaining_n <= 0 THEN [ok |-> TRUE, mems |-> mems]
    ELSE LET rd == read_bytes_linear(mems[src], start_cell, start_off, 1)
             span == iter_cells_span_from_A_1B(a)
             dst_cell_addr == dst_core_offset_cell(queue, rte, span[1])
         IN  IF ~rd.ok \/ ~bounds_check_cell(dst_cell_addr)
             THEN [ok |-> FALSE, mems |-> mems]
             ELSE SendNeuronLoop(
                      [mems EXCEPT ![dst] = write_1B(@, dst_cell_addr,
                                                    span[2], rd.bytes[1])],
                      src, dst, queue, rte,
                      IF start_off + 1 = MEM_CELL_BYTES
                      THEN start_cell + 1 ELSE start_cell,
                      IF start_off + 1 = MEM_CELL_BYTES
                      THEN 0 ELSE start_off + 1,
                      remaining_n - 1,
                      GroupStep(rte, NormCnt(rte) - (remaining_n - 1), a + 1))

send_neuron_mode(mems, src, dst, queue, sp, rte, msg_idx, msg_counts) ==
    LET prev_neurons == SumPrefix(msg_counts, msg_idx)
    IN  SendNeuronLoop(mems, src, dst, queue, rte,
                       sp.send_addr + (prev_neurons \div 32),
                       prev_neurons % 32, NormCnt(rte), rte.a0)

\* ------------------------------------------------------------------------
\* Pending buffers.  pending_by_tag of a core is a dict: a function from
\* the tags present to the list of entries
\* [is_cell_mode, rte_fields, payload].
\* ------------------------------------------------------------------------
EmptyDict == [t \in {} |-> << >>]

DictSet(d, k, v) == [t \in (DOMAIN d) \cup {k} |-> IF t = k THEN v ELSE d[t]]

DictPop(d, k) == [t \in (DOMAIN d) \ {k} |-> d[t]]

\* the cell-mode payload: the message's source cells, 32 bytes each
RECURSIVE BufferCellLoop(_, _, _, _, _)
BufferCellLoop(m, src_cell_base, cell_per_message, i, data) ==
    IF i >= cell_per_message THEN [ok |-> TRUE, bytes |-> data]
    ELSE IF ~bounds_check_cell(src_cell_base + i)
    THEN [ok |-> FALSE, bytes |-> data]
    ELSE BufferCellLoop(m, src_cell_base, cell_per_message, i + 1,
                        data \o read_cell(m, src_cell_base + i))

\* the neuron-mode payload: the message's source bytes, one at a time
RECURSIVE BufferNeuronLoop(_, _, _, _, _)
BufferNeuronLoop(m, start_cell, start_off, n, data) ==
    IF n <= 0 THEN [ok |-> TRUE, bytes |-> data]
    ELSE LET rd == read_bytes_linear(m, start_cell, start_off, 1)
         IN  IF ~rd.ok THEN [ok |-> FALSE, bytes |-> data]
             ELSE BufferNeuronLoop(m,
                      IF start_off + 1 = MEM_CELL_BYTES
                      THEN start_cell + 1 ELSE start_cell,
                      IF start_off + 1 = MEM_CELL_BYTES
                      THEN 0 ELSE start_off + 1,
                      n - 1, data \o rd.bytes)

\* _buffer_send_payload: [ok, pend], pend the destination's new dict.  The
\* list of the tag is created before the source is read, so it is there
\* (empty) when a read raises.
buffer_send_payload(src_mem, pend, sp, rte, msg_idx, msg_counts) ==
    LET tag   == rte.tag_id
        pend0 == IF tag \in DOMAIN pend THEN pend ELSE DictSet(pend, tag, << >>)
        prev  == SumPrefix(msg_counts, msg_idx)
        rd    == IF sp.cell_or_neuron = 0
                 THEN BufferCellLoop(src_mem, sp.send_addr + prev,
                                     NormCnt(rte), 0, << >>)
                 ELSE BufferNeuronLoop(src_mem, sp.send_addr + (prev \div 32),
                                       prev % 32, NormCnt(rte), << >>)
        entry == [is_cell_mode |-> (sp.cell_or_neuron = 0),
                  rte_fields   |-> rte,
                  payload      |-> rd.bytes]
    IN  IF rd.ok
        THEN [ok |-> TRUE, pend |-> DictSet(pend0, tag, Append(pend0[tag], entry))]
        ELSE [ok |-> FALSE, pend |-> pend0]

\* replay of a buffered cell-mode payload, 32 bytes at a time
RECURSIVE DrainCellLoop(_, _, _, _, _, _, _)
DrainCellLoop(mems, dst, queue, rte, payload, i, a) ==
    IF i >= Len(payload) THEN [ok |-> TRUE, mems |-> mems]
    ELSE LET r == WriteCellSegs(mems, dst, queue, rte,
                                SubSeq(payload, i + 1, i + 32), 0, a)
         IN  IF ~r.ok THEN [ok |-> FALSE, mems |-> r.mems]
             ELSE DrainCellLoop(r.mems, dst, queue, rte, payload, i + 32,
                                GroupStep(rte, (i \div 32) + 1, r.a))

\* replay of a buffered neuron-mode payload, one byte at a time
RECURSIVE DrainNeuronLoop(_, _, _, _, _, _, _)
DrainNeuronLoop(mems, dst, queue, rte, payload, idx, a) ==
    IF idx >= Len(payload) THEN [ok |-> TRUE, mems |-> mems]
    ELSE LET span == iter_cells_span_from_A_1B(a)
             dst_cell_addr == dst_core_offset_cell(queue, rte, span[1])
         IN  IF ~bounds_check_cell(dst_cell_addr)
             THEN [ok |-> FALSE, mems |-> mems]
             ELSE DrainNeuronLoop(
                      [mems EXCEPT ![dst] = write_1B(@, dst_cell_addr,
                                                    span[2], payload[idx + 1])],
                      dst, queue, rte, payload, idx + 1,
                      GroupStep(rte, idx + 1, a + 1))

\* a replay that leaves out the A_offset step after a group (A goes on
\* from last + 1)
DrainEntryWithoutGroupStep(mems, dst, queue, entry) ==
    LET packet == encode_packet_from_fields(entry.rte_fields)
        rte == [from_packet128(packet @@ packet) EXCEPT !.a_offset = 1]
    IN  IF entry.is_cell_mode
        THEN DrainCellLoop(mems, dst, queue, rte, entry.payload, 0, rte.a0)
        ELSE DrainNeuronLoop(mems, dst, queue, rte, entry.payload, 0, rte.a0)

\* one buffered entry: the RTE is rebuilt from its stored fields (the
\* packet, a function of the byte index, is tabulated by @@ before it is
\* decoded)
DrainEntry(mems, dst, queue, entry) ==
    LET packet == encode_packet_from_fields(entry.rte_fields)
        rte == from_packet128(packet @@ packet)
    IN  IF entry.is_cell_mode
        THEN DrainCellLoop(mems, dst, queue, rte, entry.payload, 0, rte.a0)
        ELSE DrainNeuronLoop(mems, dst, queue, rte, entry.payload, 0, rte.a0)

\* a replay that takes the newest entry first
RECURSIVE DrainNewestFirst(_, _, _, _)
DrainNewestFirst(mems, dst, queue, pending_list) ==
    IF Len(pending_list) = 0 THEN [ok |-> TRUE, mems |-> mems]
    ELSE LET r == DrainEntry(mems, dst, queue,
                             pending_list[Len(pending_list)])
         IN  IF ~r.ok THEN r
             ELSE DrainNewestFirst(r.mems, dst, queue,
                      SubSeq(pending_list, 1, Len(pending_list) - 1))

\* for ... in pending_list, in list order
RECURSIVE DrainList(_, _, _, _)
DrainList(mems, dst, queue, pending_list) ==
    IF Len(pending_list) = 0 THEN [ok |-> TRUE, mems |-> mems]
    ELSE LET r == DrainEntry(mems, dst, queue, Head(pending_list))
         IN  IF ~r.ok THEN r
             ELSE DrainList(r.mems, dst, queue, Tail(pending_list))

\* _execute_recv: [ok, mems, pending]; the tag's list is popped, then
\* replayed
execute_recv(mems, pending, queues, dst, rp) ==
    IF rp.tag_id \notin DOMAIN pending[dst]
    THEN [ok |-> TRUE, mems |-> mems, pending |-> pending]
    ELSE LET r == DrainList(mems, dst, queues[dst], pending[dst][rp.tag_id])
         IN  [ok      |-> r.ok,
              mems    |-> r.mems,
              pending |-> [pending EXCEPT ![dst] = DictPop(@, rp.tag_id)]]

\* ------------------------------------------------------------------------
\* Inputs: grid shapes, initial memory images and configured queues
\* ------------------------------------------------------------------------
MaxQueueLen == 2

\* source data: cell 0x10 is 01..08 | 11..18 | 21..28 | 31..38, cell 0x11
\* is A0..BF
DataImage ==
    (16 :> [i \in 1..MEM_CELL_BYTES |-> 16 * ((i - 1) \div 8) + ((i - 1) % 8) + 1])
    @@ (17 :> [i \in 1..MEM_CELL_BYTES |-> 160 + (i - 1)])

\* a hand-made Stop cell of an initial image: low byte 0x03, rest zero
StopCell == [i \in 1..MEM_CELL_BYTES |-> IF i = MEM_CELL_BYTES THEN 3 ELSE 0]

\* one router-table message as configured
Msg(y, x, a0, cnt, a_offset, const_raw, handshake, tag_id, en) ==
    [ s |-> 0, t |-> 0, e |-> 0, q |-> 0, y |-> y, x |-> x, a0 |-> a0,
      cnt |-> cnt, a_offset |-> a_offset, const_raw |-> const_raw,
      handshake |-> handshake, tag_id |-> tag_id, en |-> en ]

SendOp(cell_or_neuron, send_addr, para_addr, messages, mem_addr) ==
    [ kind |-> "send",
      send |-> Some([ deps |-> 0, cell_or_neuron |-> cell_or_neuron,
                      neuron_type |-> 0, message_num |-> Len(messages),
                      send_addr |-> send_addr, para_addr |-> para_addr,
                      messages |-> messages ]),
      recv |-> None, stop |-> FALSE, mem_addr |-> mem_addr ]

RecvOp(recv_addr, tag_id, mem_addr) ==
    [ kind |-> "recv", send |-> None,
      recv |-> Some([ deps |-> 0, recv_addr |-> recv_addr, tag_id |-> tag_id,
                      end_num |-> 0, relay_mode |-> 0, CXY |-> 0, mc_y |-> 0,
                      mc_x |-> 0, use_end_num |-> FALSE ]),
      stop |-> FALSE, mem_addr |-> mem_addr ]

StopOp == [ kind |-> "stop", send |-> None, recv |-> None, stop |-> TRUE,
            mem_addr |-> None ]

\* message lists a configured Send carries, with its mode
Template(cell_or_neuron, messages) ==
    [cell_or_neuron |-> cell_or_neuron, messages |-> messages]

\* offsets (1,1) lead from either configured core to the other one
HsMsg(tag_id)  == Msg(1, 1, 0, 1, 1, 0, TRUE, tag_id, TRUE)

DirMsg(tag_id) == Msg(1, 1, 0, 1, 1, 0, FALSE, tag_id, TRUE)

PairTemplate == Template(0, << HsMsg(7) >>)

Templates ==
    { Template(0, << DirMsg(7) >>),
      Template(0, << HsMsg(7), HsMsg(7) >>),
      Template(0, << HsMsg(8), HsMsg(7) >>),
      Template(0, << Msg(1, 1, 0, 1, 1, 0, TRUE, 7, FALSE), DirMsg(7) >>),
      Template(0, << Msg(1, 1, 2, 2, 4, 0, TRUE, 7, TRUE) >>),
      Template(0, << HsMsg(7), Msg(1, 1, 2, 1, 1, 0, TRUE, 7, TRUE) >>),
      Template(0, << Msg(1, 1, 0, 2, -8, 0, FALSE, 7, TRUE) >>),
      Template(0, << Msg(1, 1, 0, 2, -8, 0, FALSE, 7, FALSE), HsMsg(7) >>),
      Template(0, << Msg(1, 1, 0, 2, -5, 0, FALSE, 7, TRUE) >>),
      Template(0, << Msg(1, 1, 0, 2, -5, 0, TRUE, 7, TRUE) >>),
      Template(0, << Msg(0, 0, 0, 1, 1, 0, TRUE, 8, TRUE) >>),
      Template(1, << Msg(1, 1, 0, 8, 8, 3, TRUE, 7, TRUE) >>),
      Template(1, << Msg(1, 1, 5, 1, 1, 0, TRUE, 7, TRUE),
                     Msg(1, 1, 5, 1, 1, 0, TRUE, 7, TRUE) >>),
      Template(1, << Msg(1, 1, 30, 4, 1, 0, FALSE, 7, TRUE),
                     Msg(1, 1, 0, 40, 1, 0, TRUE, 8, TRUE) >>) }

\* a plan lists what a core's queue is to hold, cell by cell from cell 0:
\* "S" a configured Send, "R" a configured Recv of tag 7 at 0x40, "X" a
\* Stop cell of the initial image
PlanItems == {"S", "R", "X"}

Plans == UNION { [1..n -> PlanItems] : n \in 0..MaxQueueLen }

PlanImage(plan) ==
    LET stops == {i \in 1..Len(plan) : plan[i] = "X"}
    IN  [a \in {i - 1 : i \in stops} |-> StopCell] @@ DataImage

RECURSIVE PlanQueue(_, _)
PlanQueue(plan, tmpl) ==
    IF Len(plan) = 0 THEN << >>
    ELSE LET rest == PlanQueue(Tail(plan), tmpl)
         IN  CASE Head(plan) = "S" ->
                    << SendOp(tmpl.cell_or_neuron, 16, 32, tmpl.messages, None) >>
                    \o rest
               [] Head(plan) = "R" -> << RecvOp(64, 7, None) >> \o rest
               [] OTHER -> rest

\* CoreConfig: the initial image (init_mem_path, already loaded) and the
\* configured prim_queue
CoreConfig(image, queue) == [image |-> image, prim_queue |-> queue]

PlanConfig(plan, tmpl) == CoreConfig(PlanImage(plan), PlanQueue(plan, tmpl))

DefaultConfig == CoreConfig(EmptyMem, << >>)

\* the two configured cores of a grid; offsets (1,1) pair them up
GridShapes == { << 1, 2 >>, << 2, 2 >> }

CoreA(grid) == IF grid[1] = 1 THEN << 0, 0 >> ELSE << 0, 1 >>

CoreB(grid) == IF grid[1] = 1 THEN << 0, 1 >> ELSE << 1, 0 >>

ArrayConfig(grid, cfgA, cfgB) ==
    [ height |-> grid[1], width |-> grid[2],
      cores  |-> (CoreA(grid) :> cfgA) @@ (CoreB(grid) :> cfgB) ]

\* every pair of plans under the handshake template
PairInputs ==
    { ArrayConfig(g, PlanConfig(pa, PairTemplate), PlanConfig(pb, PairTemplate)) :
        g \in GridShapes, pa \in Plans, pb \in Plans }

\* every template under a few plans
TemplateInputs ==
    { ArrayConfig(<< 1, 2 >>, PlanConfig(pa, t), PlanConfig(pb, t)) :
        t \in Templates,
        pa \in { << "S" >>, << "S", "S" >> },
        pb \in { << >>, << "R" >>, << "X", "R" >>, << "S", "R" >> } }

\* scenarios S1 and S2: a 2x2 grid, core (0,0) sends one cell to core (0,1)
ScenarioSend(handshake) ==
    SendOp(0, 16, 32, << Msg(0, 1, 0, 1, 0, 0, handshake, 7, TRUE) >>, None)

UnrelatedSend ==
    SendOp(0, 17, 34, << Msg(0, 0, 0, 1, 0, 0, FALSE, 9, FALSE) >>, None)

ScenarioConfig(handshake, queue01) ==
    [ height |-> 2, width |-> 2,
      cores  |-> (<< 0, 0 >> :> CoreConfig(DataImage,
                                    << ScenarioSend(handshake), StopOp >>))
                 @@ (<< 0, 1 >> :> CoreConfig(EmptyMem, queue01)) ]

S1Config == ScenarioConfig(FALSE, << RecvOp(64, 7, None), StopOp >>)

S2Config == ScenarioConfig(TRUE, << UnrelatedSend, RecvOp(64, 7, None), StopOp >>)

\* seeding outside the memory: a router table at para_addr = num_cells and
\* a primitive at mem_addr = num_cells
OutsideInputs ==
    { ArrayConfig(<< 1, 2 >>,
          CoreConfig(DataImage, << SendOp(0, 16, num_cells, << DirMsg(7) >>, None) >>),
          DefaultConfig),
      ArrayConfig(<< 1, 2 >>,
          CoreConfig(DataImage, << RecvOp(64, 7, Some(num_cells)),
                                   SendOp(0, 16, 32, << DirMsg(7) >>, None) >>),
          DefaultConfig) }

\* a function given by a rule, tabulated
Tabulated(f) == f @@ f

\* a cell of an initial image with low nibble 0x6 and both flags clear
FlaglessCell == [i \in 1..MEM_CELL_BYTES |-> IF i = MEM_CELL_BYTES THEN 6 ELSE 0]

\* a Recv seeded at cell 2 behind a terminator at cell 1: an unmapped cell,
\* or a flagless cell of the initial image
GapInputs ==
    { ArrayConfig(<< 1, 2 >>,
          CoreConfig(image, << SendOp(0, 16, 32, << DirMsg(7) >>, None),
                               RecvOp(64, 7, Some(2)) >>),
          PlanConfig(<< "R" >>, PairTemplate)) :
        image \in { DataImage, (1 :> FlaglessCell) @@ DataImage } }

\* a 3x3 grid with one configured core, whose Send has one message of one
\* cell with offsets that leave the grid on either side; no core has a Recv
WrapOffsets ==
    { << -1, -1 >>, << -32, 31 >>, << 31, -32 >>, << 0, 3 >>, << 1, -2 >> }

WrapInputs ==
    { [ height |-> 3, width |-> 3,
        cores  |-> (src :> CoreConfig(DataImage,
                       << SendOp(0, 16, 32,
                              << Msg(o[1], o[2], 0, 1, 1, 0, hs, 7, TRUE) >>,
                              None) >>)) ] :
        src \in { << 0, 0 >>, << 2, 1 >> }, o \in WrapOffsets,
        hs \in BOOLEAN }

\* scenario S4: a neuron-mode Send of one message, CNT 8, A0 0, CONST 3,
\* A_OFFSET 8, from cell 0x11 (bytes A0, A1, ...); the destination has a
\* Recv of the tag at 0x40, or no Recv at all
S4Send == SendOp(1, 17, 32, << Msg(1, 1, 0, 8, 8, 3, FALSE, 7, TRUE) >>, None)

S4Inputs ==
    { ArrayConfig(<< 1, 2 >>, CoreConfig(DataImage, << S4Send >>),
                  CoreConfig(EmptyMem, queue01)) :
        queue01 \in { << RecvOp(64, 7, None) >>, << >> } }

\* a cell-mode Send of one message, with or without handshake: three
\* distinct cells from A0 1 with CONST 1 (group size 2) and A_OFFSET 6, or
\* CNT 0; the destination has a Recv of the tag at 0x40, or no Recv at all
StrideInputs ==
    { ArrayConfig(<< 1, 2 >>,
          CoreConfig((18 :> [i \in 1..MEM_CELL_BYTES |-> 200 + i]) @@ DataImage,
              << SendOp(0, 16, 32, << Msg(1, 1, f[1], f[2], 6, 1, hs, 7, TRUE) >>,
                        None) >>),
          CoreConfig(EmptyMem, queue01)) :
        f \in { << 1, 3 >>, << 0, 0 >> }, hs \in BOOLEAN,
        queue01 \in { << RecvOp(64, 7, None) >>, << >> } }

\* one core sends a cell with tag 7, the other core's queue holds two
\* Recvs: of the same tag at different addresses, or the first of another
\* tag; the receiving core runs before the sender, or after it
BaseQueues ==
    { << RecvOp(64, 7, None), RecvOp(80, 7, None) >>,
      << RecvOp(80, 7, None), RecvOp(64, 7, None) >>,
      << RecvOp(80, 8, None), RecvOp(64, 7, None) >> }

BaseInputs ==
    UNION { { ArrayConfig(<< 1, 2 >>, PlanConfig(<< "S" >>, t),
                          CoreConfig(EmptyMem, q)),
              ArrayConfig(<< 1, 2 >>, CoreConfig(EmptyMem, q),
                          PlanConfig(<< "S" >>, t)) } :
            q \in BaseQueues, t \in { Template(0, << DirMsg(7) >>) } }

\* a Send configured with a message_num and no inline messages.  Its
\* router table is part of the initial image, three enabled entries of one
\* cell each at 0x20, 0x21 (A0 = 0, 4, 8) and zeros behind them; or, for
\* the largest numbers, it starts in the last cell of the memory
CountedSends ==
    { << 0, 32 >>, << 1, 32 >>, << 2, 32 >>, << 3, 32 >>, << 16, 32 >>,
      << 255, num_cells - 1 >>, << 256, num_cells - 1 >> }

CountedSend(n, para_addr) ==
    [ SendOp(0, 16, para_addr, << >>, None) EXCEPT !.send[1].message_num = n ]

CountedImage ==
    write_router_table_to_memory(DataImage, 32,
        PacketsOf(<< Msg(1, 1, 0, 1, 1, 0, FALSE, 7, TRUE),
                     Msg(1, 1, 4, 1, 1, 0, FALSE, 7, TRUE),
                     Msg(1, 1, 8, 1, 1, 0, FALSE, 7, TRUE) >>))

CountedInputs ==
    { ArrayConfig(<< 1, 2 >>,
                  CoreConfig(CountedImage, << CountedSend(f[1], f[2]) >>),
                  CoreConfig(EmptyMem, << >>)) : f \in CountedSends }

Inputs == PairInputs \cup TemplateInputs \cup { S1Config, S2Config }
          \cup OutsideInputs \cup GapInputs \cup WrapInputs \cup S4Inputs
          \cup StrideInputs \cup BaseInputs \cup CountedInputs

\* ------------------------------------------------------------------------
\* State
\* ------------------------------------------------------------------------
VARIABLES
    array_config,   \* the ArrayConfig the simulator was built from
    h, w,           \* grid shape
    mem,            \* coordinate -> memory of the core
    prim_queue,     \* coordinate -> parsed primitive queue
    pending_by_tag, \* coordinate -> dict tag -> buffered entries
    indices,        \* run: coordinate -> queue index
    stopped,        \* run: coordinate -> stopped flag
    remaining,      \* run: primitives not yet retired
    progressed,     \* run: progress flag of the current pass
    cursor,         \* run: position of the for loop over the cores
    pc,             \* "loop", "pass", "send", "done", "error" or "drained"
    rtes,           \* _execute_send: the parsed router table
    msg_idx,        \* _execute_send: index of the next message
    pass,           \* number of passes started (observation)
    trace,          \* the primitives executed so far (observation)
    recv_call,      \* a direct call of _execute_recv made after run:
                    \* None, or its core, tag and the list it popped
                    \* (observation)
    unit_pc,        \* a codec function called on its own: "idle" in a
                    \* run, else the stage the call is at
    unit_in,        \* its argument
    unit_mid,       \* the encoded form (a cell, a packet or a memory)
    unit_out        \* the decoded result

unit_vars == << unit_pc, unit_in, unit_mid, unit_out >>

vars == << array_config, h, w, mem, prim_queue, pending_by_tag, indices,
           stopped, remaining, progressed, cursor, pc, rtes, msg_idx, pass,
           trace, recv_call, unit_pc, unit_in, unit_mid, unit_out >>

Coords == (0..(h - 1)) \X (0..(w - 1))

\* an iteration order that runs down the columns first
CoordAtColumnMajor(k) == << k % h, k \div h >>

\* the cores dict is filled for y in range(h), for x in range(w): the k-th
\* core of its iteration order
CoordAt(k) == << k \div w, k % w >>

\* a wrap that folds a negative coordinate back by its absolute value
wrap_coord_abs(y, x) ==
    << (IF y < 0 THEN -y ELSE y) % h, (IF x < 0 THEN -x ELSE x) % w >>

\* _wrap_coord
wrap_coord(y, x) == << y % h, x % w >>

RECURSIVE SumLens(_, _)
SumLens(queues, coords) ==
    IF coords = {} THEN 0
    ELSE LET c == CHOOSE c \in coords : TRUE
         IN  Len(queues[c]) + SumLens(queues, coords \ {c})

\* passes are counted up to this cap
PassCap == MaxQueueLen + 3

\* ------------------------------------------------------------------------
\* NoCSimulator.__init__ followed by the first lines of run
\* ------------------------------------------------------------------------
\* the memory and the parsed queue of one core: its image is seeded from
\* its CoreConfig, then the queue is parsed from the seeded memory
\* a construction that parses the queue before the configuration is seeded
BuildCoreParsingFirst(core_config) ==
    [ mem        |-> seed_config_into_memory(core_config.image,
                                             core_config.prim_queue),
      prim_queue |-> parse_prims_from_memory(core_config.image) ]

BuildCore(core_config) ==
    CHOOSE node \in { [mem |-> m, prim_queue |-> parse_prims_from_memory(m)] :
                        m \in { seed_config_into_memory(core_config.image,
                                    core_config.prim_queue) } } : TRUE


\* the core configurations the inputs use, each built once
CoreConfigs ==
    UNION { { cfg.cores[c] : c \in DOMAIN cfg.cores } : cfg \in Inputs }
    \cup { DefaultConfig }

BuiltCores == Tabulated([cc \in CoreConfigs |-> BuildCore(cc)])

\* the core built from a CoreConfig, read from the table where it is there
BuiltCoreOf(cc) ==
    IF cc \in DOMAIN BuiltCores THEN BuiltCores[cc] ELSE BuildCore(cc)

Init ==
    \E cfg \in Inputs :
      \E nodes \in { [c \in (0..(cfg.height - 1)) \X (0..(cfg.width - 1)) |->
                        BuiltCores[IF c \in DOMAIN cfg.cores THEN cfg.cores[c]
                                   ELSE DefaultConfig]] } :
        /\ array_config = cfg
        /\ h = cfg.height
        /\ w = cfg.width
        /\ mem = [c \in DOMAIN nodes |-> nodes[c].mem]
        /\ prim_queue = [c \in DOMAIN nodes |-> nodes[c].prim_queue]
        /\ pending_by_tag = [c \in DOMAIN nodes |-> EmptyDict]
        /\ indices = [c \in DOMAIN nodes |-> 0]
        /\ stopped = [c \in DOMAIN nodes |-> FALSE]
        /\ remaining = SumLens([c \in DOMAIN nodes |-> nodes[c].prim_queue],
                               DOMAIN nodes)
        /\ progressed = FALSE
        /\ cursor = 0
        /\ pc = "loop"
        /\ rtes = << >>
        /\ msg_idx = 0
        /\ pass = 0
        /\ trace = << >>
        /\ recv_call = None
        /\ unit_pc = "idle"
        /\ unit_in = None
        /\ unit_mid = None
        /\ unit_out = None

\* ------------------------------------------------------------------------
\* _execute_send, one message
\* ------------------------------------------------------------------------
\* a loop body that never takes the continue of a disabled message
SkippedNever(rte) == FALSE

\* if not rte.en: continue
Skipped(rte) == ~rte.en

\* the body of the message loop for message msg (0-based) of the table
\* entries: [ok, mems, pending]
ProcessMessage(mems, pending, queues, src, sp, entries, msg) ==
    LET rte        == entries[msg + 1]
        msg_counts == MsgCounts(entries)
        dst        == wrap_coord(src[1] + rte.y, src[2] + rte.x)
    IN  IF Skipped(rte)
        THEN [ok |-> TRUE, mems |-> mems, pending |-> pending]
        ELSE IF rte.handshake /\ ~find_recv_acceptor(queues[dst], rte.tag_id)
        THEN LET b == buffer_send_payload(mems[src], pending[dst], sp, rte,
                                          msg, msg_counts)
             IN  [ok |-> b.ok, mems |-> mems,
                  pending |-> [pending EXCEPT ![dst] = b.pend]]
        ELSE LET r == IF sp.cell_or_neuron = 0
                      THEN send_cell_mode(mems, src, dst, queues[dst], sp,
                                          rte, msg, msg_counts)
                      ELSE send_neuron_mode(mems, src, dst, queues[dst], sp,
                                            rte, msg, msg_counts)
             IN  [ok |-> r.ok, mems |-> r.mems, pending |-> pending]

\* _prepare_router_msgs_if_needed, on the source core's memory
prepare_router_msgs_if_needed(m, sp) ==
    IF Len(sp.messages) > 0
    THEN write_router_table_to_memory(m, sp.para_addr, PacketsOf(sp.messages))
    ELSE m

\* ------------------------------------------------------------------------
\* NoCSimulator.run
\* ------------------------------------------------------------------------
\* a for loop that walks the cores from the last one to the first
CurCoordReversed == CoordAt(h * w - 1 - cursor)

\* the core the for loop is at, and the primitive it would fetch
CurCoord == CoordAt(cursor)

\* an eligibility test that forgets the stopped flag
EligibleIgnoringStop(coord) == ~(indices[coord] >= Len(prim_queue[coord]))

\* not stopped and index below the queue length
Eligible(coord) ==
    ~stopped[coord] /\ ~(indices[coord] >= Len(prim_queue[coord]))

\* a fetch that always takes the head of the queue
FetchHead(queue, idx) == queue[1]

\* op = node.prim_queue[idx]
FetchOp(queue, idx) == queue[idx + 1]

\* indices[coord] += 1
NextIndex(idx) == idx + 1

\* the loop is left when remaining is used up or a pass made no progress
LoopContinues(remaining_ops) == remaining_ops > 0

\* a pass that never breaks the loop
PassNeverBreaks(progressed_flag) == FALSE

\* a pass that breaks the loop whether or not it made progress
PassAlwaysBreaks(progressed_flag) == TRUE

PassBreaks(progressed_flag) == ~progressed_flag

\* what the observation records of one executed primitive: the pass, the
\* core, and the primitive that was fetched
TraceEntry(coord, op) == [pass |-> pass, coord |-> coord, op |-> op]

\* indices[coord] += 1; remaining -= 1; progressed = True
Retire(coord) ==
    /\ indices' = [indices EXCEPT ![coord] = NextIndex(@)]
    /\ remaining' = remaining - 1
    /\ progressed' = TRUE
    /\ cursor' = cursor + 1

\* while remaining > 0: progressed = False, start the for loop
WhileTest ==
    /\ pc = "loop"
    /\ IF LoopContinues(remaining)
       THEN /\ pc' = "pass"
            /\ progressed' = FALSE
            /\ cursor' = 0
            /\ pass' = IF pass < PassCap THEN pass + 1 ELSE pass
       ELSE /\ pc' = "done"
            /\ UNCHANGED << progressed, cursor, pass >>
    /\ UNCHANGED << unit_vars, array_config, h, w, recv_call, mem, prim_queue,
                    pending_by_tag, indices, stopped, remaining, rtes,
                    msg_idx, trace >>

\* continue: the core is stopped or its queue is used up
SkipCore ==
    /\ pc = "pass"
    /\ cursor < h * w
    /\ ~Eligible(CurCoord)
    /\ cursor' = cursor + 1
    /\ UNCHANGED << unit_vars, array_config, h, w, recv_call, mem, prim_queue,
                    pending_by_tag, indices, stopped, remaining, progressed,
                    pc, rtes, msg_idx, pass, trace >>

\* the fetched primitive is a Stop
ExecStop ==
    /\ pc = "pass"
    /\ cursor < h * w
    /\ Eligible(CurCoord)
    /\ LET op == FetchOp(prim_queue[CurCoord], indices[CurCoord])
       IN  /\ op.kind = "stop"
           /\ stopped' = [stopped EXCEPT ![CurCoord] = TRUE]
           /\ trace' = Append(trace, TraceEntry(CurCoord, op))
           /\ Retire(CurCoord)
    /\ UNCHANGED << unit_vars, array_config, h, w, recv_call, mem, prim_queue,
                    pending_by_tag, pc, rtes, msg_idx, pass >>

\* the fetched primitive is not a Stop: its recv half runs, then its send
\* half is prepared and its router table parsed
ExecPrim ==
    /\ pc = "pass"
    /\ cursor < h * w
    /\ Eligible(CurCoord)
    /\ \E coord \in { CurCoord } :
       \E op \in { FetchOp(prim_queue[coord], indices[coord]) } :
         /\ op.kind # "stop"
         /\ trace' = Append(trace, TraceEntry(coord, op))
         /\ \E r \in { IF op.recv # None
                       THEN execute_recv(mem, pending_by_tag, prim_queue,
                                         coord, op.recv[1])
                       ELSE [ok |-> TRUE, mems |-> mem,
                             pending |-> pending_by_tag] } :
              /\ pending_by_tag' = r.pending
              /\ IF ~r.ok
                 THEN /\ mem' = r.mems
                      /\ pc' = "error"
                      /\ UNCHANGED << indices, remaining, progressed, cursor,
                                      rtes, msg_idx >>
                 ELSE IF op.send = None
                 THEN /\ mem' = r.mems
                      /\ Retire(coord)
                      /\ UNCHANGED << pc, rtes, msg_idx >>
                 ELSE \E m1 \in { prepare_router_msgs_if_needed(
                                      r.mems[coord], op.send[1]) } :
                      \E pr \in { parse_router_table_from_memory(m1,
                                      op.send[1].para_addr,
                                      normalized_message_num(op.send[1])) } :
                        /\ mem' = [r.mems EXCEPT ![coord] = m1]
                        /\ pc' = IF pr.ok THEN "send" ELSE "error"
                        /\ rtes' = IF pr.ok THEN pr.entries ELSE rtes
                        /\ msg_idx' = 0
                        /\ UNCHANGED << indices, remaining, progressed,
                                        cursor >>
    /\ UNCHANGED << unit_vars, array_config, h, w, recv_call, prim_queue, stopped, pass >>

\* a message loop that passes over a destination that is stopped or at the
\* end of its queue
SendMsgToRunningOnly ==
    /\ pc = "send"
    /\ msg_idx < Len(rtes)
    /\ \E dst \in { wrap_coord(CurCoord[1] + rtes[msg_idx + 1].y,
                                CurCoord[2] + rtes[msg_idx + 1].x) } :
       \E r \in { IF Eligible(dst) \/ dst = CurCoord
                  THEN ProcessMessage(mem, pending_by_tag, prim_queue, CurCoord,
                           FetchOp(prim_queue[CurCoord], indices[CurCoord]).send[1],
                           rtes, msg_idx)
                  ELSE [ok |-> TRUE, mems |-> mem, pending |-> pending_by_tag] } :
         /\ mem' = r.mems
         /\ pending_by_tag' = r.pending
         /\ pc' = IF r.ok THEN "send" ELSE "error"
         /\ msg_idx' = IF r.ok THEN msg_idx + 1 ELSE msg_idx
    /\ UNCHANGED << unit_vars, array_config, h, w, recv_call, prim_queue, indices, stopped,
                    remaining, progressed, cursor, rtes, pass, trace >>

\* one iteration of the message loop of _execute_send
SendMsg ==
    /\ pc = "send"
    /\ msg_idx < Len(rtes)
    /\ \E r \in { ProcessMessage(mem, pending_by_tag, prim_queue, CurCoord,
                      FetchOp(prim_queue[CurCoord], indices[CurCoord]).send[1],
                      rtes, msg_idx) } :
         /\ mem' = r.mems
         /\ pending_by_tag' = r.pending
         /\ pc' = IF r.ok THEN "send" ELSE "error"
         /\ msg_idx' = IF r.ok THEN msg_idx + 1 ELSE msg_idx
    /\ UNCHANGED << unit_vars, array_config, h, w, recv_call, prim_queue, indices, stopped,
                    remaining, progressed, cursor, rtes, pass, trace >>

\* _execute_send returns: the primitive is retired
EndSend ==
    /\ pc = "send"
    /\ msg_idx = Len(rtes)
    /\ pc' = "pass"
    /\ rtes' = << >>
    /\ msg_idx' = 0
    /\ Retire(CurCoord)
    /\ UNCHANGED << unit_vars, array_config, h, w, recv_call, mem, prim_queue, pending_by_tag,
                    stopped, pass, trace >>

\* the for loop is over: break when the pass made no progress
EndPass ==
    /\ pc = "pass"
    /\ cursor = h * w
    /\ pc' = IF PassBreaks(progressed) THEN "done" ELSE "loop"
    /\ UNCHANGED << unit_vars, array_config, h, w, recv_call, mem, prim_queue, pending_by_tag,
                    indices, stopped, remaining, progressed, cursor, rtes,
                    msg_idx, pass, trace >>

Next ==
    \/ WhileTest
    \/ SkipCore
    \/ ExecStop
    \/ ExecPrim
    \/ SendMsg
    \/ EndSend
    \/ EndPass

Spec == Init /\ [][Next]_vars

\* ------------------------------------------------------------------------
\* _execute_recv called directly on the simulator once run has returned,
\* with a RecvPrim of a tag in use: the way a buffered list gets replayed
\* (inside run a payload is buffered only at a core whose queue holds no
\* Recv of its tag, so no primitive of run pops a non-empty list)
\* ------------------------------------------------------------------------
UsedTags == { 7, 8 }

UnitRecv ==
    /\ pc = "done"
    /\ \E dst \in Coords : \E tag \in UsedTags :
       \E r \in { execute_recv(mem, pending_by_tag, prim_queue, dst,
                                RecvOp(0, tag, None).recv[1]) } :
         /\ mem' = r.mems
         /\ pending_by_tag' = r.pending
         /\ pc' = IF r.ok THEN "drained" ELSE "error"
         /\ recv_call' = Some([dst |-> dst, tag |-> tag,
                               list |-> IF tag \in DOMAIN pending_by_tag[dst]
                                        THEN pending_by_tag[dst][tag]
                                        ELSE << >>])
    /\ UNCHANGED << unit_vars, array_config, h, w, prim_queue, indices,
                    stopped, remaining, progressed, cursor, rtes, msg_idx,
                    pass, trace >>

NextWithRecv == Next \/ UnitRecv

DrainSpec == Init /\ [][NextWithRecv]_vars

\* run is a sequential program: it keeps taking steps until it returns or
\* raises.  The steps that move data are enabled exactly in the states of
\* TransferEnabled, and each of them changes trace, msg_idx or pc, so their
\* weak fairness is written with that predicate in place of ENABLED.
Bookkeeping == WhileTest \/ SkipCore \/ ExecStop \/ EndSend \/ EndPass

Transfer == ExecPrim \/ SendMsg

TransferEnabled ==
    \/ pc = "send" /\ msg_idx < Len(rtes)
    \/ /\ pc = "pass"
       /\ cursor < h * w
       /\ Eligible(CurCoord)
       /\ FetchOp(prim_queue[CurCoord], indices[CurCoord]).kind # "stop"

FairSpec ==
    /\ Spec
    /\ WF_vars(Bookkeeping)
    /\ ([]<>~TransferEnabled \/ []<><<Transfer>>_vars)

\* ------------------------------------------------------------------------
\* The codec functions called on their own: a primitive, a router-table
\* entry or a list of packets is encoded, then decoded.  The arguments have
\* their fields at the ends of the ranges the code declares for them.
\* ------------------------------------------------------------------------
UnitSends ==
    { [ deps |-> d, cell_or_neuron |-> cn, neuron_type |-> 0,
        message_num |-> n, send_addr |-> sa, para_addr |-> pa,
        messages |-> << >> ] :
        d \in {0, 255, 256, 65535}, cn \in {0, 1}, n \in {1, 256},
        sa \in {0, 65535}, pa \in {0, 65535} }

UnitRecvs ==
    { [ deps |-> d, recv_addr |-> ra, tag_id |-> t, end_num |-> t,
        relay_mode |-> 0, CXY |-> c, mc_y |-> my, mc_x |-> mx,
        use_end_num |-> FALSE ] :
        d \in {0, 255, 256}, ra \in {0, 65535}, t \in {0, 255}, c \in {0, 3},
        my \in {-32, 0, 31}, mx \in {-1, 0} }

\* PrimOp values: Send only, Recv only, both halves in one cell, Stop
UnitPrimOps ==
    { [ kind |-> "send", send |-> Some(sp), recv |-> None, stop |-> FALSE,
        mem_addr |-> None ] : sp \in UnitSends }
    \cup { [ kind |-> "recv", send |-> None, recv |-> Some(rp), stop |-> FALSE,
             mem_addr |-> None ] : rp \in UnitRecvs }
    \cup { [ kind |-> "send", send |-> Some(sp), recv |-> Some(rp),
             stop |-> FALSE, mem_addr |-> None ] :
             sp \in { u \in UnitSends : u.send_addr = 65535 /\ u.para_addr = 0 },
             rp \in { u \in UnitRecvs : u.recv_addr = 65535 /\ u.mc_y = 0
                                           /\ u.mc_x = 0 /\ u.CXY = 0 } }
    \cup { StopOp }

\* RTE field dicts
UnitRtes ==
    { [ s |-> b, t |-> 1 - b, e |-> b, q |-> 1 - b, y |-> y, x |-> x,
        a0 |-> a0, cnt |-> IF a0 = 0 THEN 4095 ELSE 0, a_offset |-> ao,
        const_raw |-> cr, handshake |-> hs,
        tag_id |-> IF cr = 0 THEN 255 ELSE 0, en |-> en ] :
        b \in {0, 1}, y \in {-32, -1, 0, 31}, x \in {-32, 31},
        a0 \in {0, 16383}, ao \in {-2048, -1, 2047}, cr \in {0, 127},
        hs \in BOOLEAN, en \in BOOLEAN }

\* 128-bit packets: two encoded entries and one with every bit set
UnitPackets ==
    { encode_packet_from_fields(HsMsg(7)),
      encode_packet_from_fields(Msg(-1, -32, 16383, 4095, -1, 127, FALSE, 255, TRUE)),
      [i \in 1..16 |-> 255] }

MaxTableLen == 3

\* a memory whose cells at the base are already in use, a base address and
\* a list of packets that fits below num_cells
UnitTables ==
    { [ mem |-> (base :> [i \in 1..MEM_CELL_BYTES |-> 255])
                @@ ((base + 1) :> [i \in 1..MEM_CELL_BYTES |-> 170]),
        base_addr |-> base, packets |-> pkts ] :
        base \in {0, 32, num_cells - 2},
        pkts \in UNION { [1..n -> UnitPackets] : n \in 0..MaxTableLen } }

\* addresses A given to the two address maps: -MaxSpanA .. MaxSpanA
MaxSpanA == 70

UnitSpans == { [a |-> a] : a \in (-MaxSpanA)..MaxSpanA }

\* calls of the memory's methods: a memory with no cell, one cell or two
\* cells, addresses in and out of range, and the other arguments of each
\* method in and out of range
UnitMemCalls(method) ==
    LET mems  == { EmptyMem,
                   (5 :> [i \in 1..MEM_CELL_BYTES |-> 100 + i]),
                   (5 :> [i \in 1..MEM_CELL_BYTES |-> 100 + i])
                     @@ (6 :> [i \in 1..MEM_CELL_BYTES |-> 200 + i]) }
        addrs == { -1, 0, 5, 6, num_cells - 1, num_cells }
    IN  CASE method = "read_cell" ->
               { [mem |-> m, addr |-> a] : m \in mems, a \in addrs }
          [] method = "read_bytes_linear" ->
               { [mem |-> m, addr |-> a, off |-> o, length |-> n] :
                   m \in mems, a \in addrs, o \in {0, 31},
                   n \in {0, 1, 2, 33} }
          [] method = "write_8B" ->
               { [mem |-> m, addr |-> a, idx |-> k, data |-> d] :
                   m \in mems, a \in addrs, k \in {-1, 0, 3, 4},
                   d \in { [i \in 1..n |-> 10 + i] : n \in {7, 8, 9} } }
          [] OTHER ->
               { [mem |-> m, addr |-> a, idx |-> k, data |-> v] :
                   m \in mems, a \in addrs, k \in {-1, 0, 31, 32},
                   v \in {-1, 0, 255, 256} }

\* One core of NoCSimulator.__init__ built from its configuration. The
\* initial image is given by a description: its cells as they are, or a
\* memory whose every cell is non-zero except the cells listed
ImageOf(d) ==
    IF d.full
    THEN Tabulated([a \in 0..(num_cells - 1) |->
                       IF a \in DOMAIN d.cells THEN d.cells[a]
                       ELSE Tabulated(FlaglessCell)])
    ELSE d.cells

UnitSeeds ==
    LET queues ==
          { << >>,
            << RecvOp(64, 7, None), StopOp >>,
            << RecvOp(64, 7, None), RecvOp(64, 8, Some(0)), StopOp >>,
            << RecvOp(64, 8, Some(1)), RecvOp(64, 7, None), RecvOp(64, 9, None) >>,
            << RecvOp(64, 8, Some(1)), RecvOp(64, 9, Some(1)), RecvOp(64, 7, None) >>,
            << SendOp(0, 16, 1, << DirMsg(7) >>, None), RecvOp(64, 7, None) >>,
            << SendOp(0, 16, 32, << DirMsg(7) >>, None), RecvOp(64, 7, None),
               StopOp >> }
    IN  { [image |-> [full |-> FALSE, cells |-> cells], queue |-> q] :
            cells \in { EmptyMem, 0 :> StopCell, 1 :> StopCell,
                        0 :> ZeroWord(MEM_CELL_BYTES), DataImage,
                        (0 :> StopCell) @@ (1 :> FlaglessCell) @@ (3 :> StopCell) },
            q \in queues }
        \cup
        { [image |-> [full |-> TRUE, cells |-> cells], queue |-> q] :
            cells \in { EmptyMem, (num_cells - 1) :> ZeroWord(MEM_CELL_BYTES) },
            q \in { << RecvOp(64, 7, None), RecvOp(64, 8, Some(0)), StopOp >> } }

UnitInit ==
    /\ \/ unit_pc = "prim" /\ unit_in \in UnitPrimOps
       \/ unit_pc = "seed" /\ unit_in \in UnitSeeds
       \/ unit_pc = "read_cell" /\ unit_in \in UnitMemCalls("read_cell")
       \/ unit_pc = "read_bytes_linear"
             /\ unit_in \in UnitMemCalls("read_bytes_linear")
       \/ unit_pc = "write_8B" /\ unit_in \in UnitMemCalls("write_8B")
       \/ unit_pc = "write_1B" /\ unit_in \in UnitMemCalls("write_1B")
       \/ unit_pc = "span" /\ unit_in \in UnitSpans
       \/ unit_pc = "rte" /\ unit_in \in UnitRtes
       \/ unit_pc = "table" /\ unit_in \in UnitTables
    /\ unit_mid = None
    /\ unit_out = None
    /\ array_config = [height |-> 1, width |-> 1, cores |-> << >>]
    /\ h = 1
    /\ w = 1
    /\ mem = [c \in {<< 0, 0 >>} |-> EmptyMem]
    /\ prim_queue = [c \in {<< 0, 0 >>} |-> << >>]
    /\ pending_by_tag = [c \in {<< 0, 0 >>} |-> EmptyDict]
    /\ indices = [c \in {<< 0, 0 >>} |-> 0]
    /\ stopped = [c \in {<< 0, 0 >>} |-> FALSE]
    /\ remaining = 0
    /\ progressed = FALSE
    /\ cursor = 0
    /\ pc = "unit"
    /\ rtes = << >>
    /\ msg_idx = 0
    /\ pass = 0
    /\ trace = << >>
    /\ recv_call = None

run_vars == << array_config, h, w, mem, prim_queue, pending_by_tag, indices,
               stopped, remaining, progressed, cursor, pc, rtes, msg_idx,
               pass, trace, recv_call >>

\* encode_prim_cell(op)
EncodePrim ==
    /\ unit_pc = "prim"
    /\ IF encode_prim_raises(unit_in)
       THEN unit_mid' = None /\ unit_pc' = "prim_error"
       ELSE unit_mid' = encode_prim_cell(unit_in) /\ unit_pc' = "prim_cell"
    /\ UNCHANGED << unit_in, unit_out, run_vars >>

\* decode_prim_cell(cell)
DecodePrim ==
    /\ unit_pc = "prim_cell"
    /\ unit_out' = decode_prim_cell(unit_mid)
    /\ unit_pc' = "prim_done"
    /\ UNCHANGED << unit_in, unit_mid, run_vars >>

\* encode_packet_from_fields(fields)
EncodePacket ==
    /\ unit_pc = "rte"
    /\ unit_mid' = encode_packet_from_fields(unit_in)
    /\ unit_pc' = "rte_packet"
    /\ UNCHANGED << unit_in, unit_out, run_vars >>

\* RouterTableEntry.from_packet128(packet)
DecodePacket ==
    /\ unit_pc = "rte_packet"
    /\ unit_out' = from_packet128(unit_mid)
    /\ unit_pc' = "rte_done"
    /\ UNCHANGED << unit_in, unit_mid, run_vars >>

\* write_router_table_to_memory(mem, base_addr, packets)
WriteTable ==
    /\ unit_pc = "table"
    /\ unit_mid' = write_router_table_to_memory(unit_in.mem, unit_in.base_addr,
                                                unit_in.packets)
    /\ unit_pc' = "table_mem"
    /\ UNCHANGED << unit_in, unit_out, run_vars >>

\* parse_router_table_from_memory(mem, base_addr, len(packets))
ParseTable ==
    /\ unit_pc = "table_mem"
    /\ unit_out' = parse_router_table_from_memory(unit_mid, unit_in.base_addr,
                                                  Len(unit_in.packets))
    /\ unit_pc' = "table_done"
    /\ UNCHANGED << unit_in, unit_mid, run_vars >>

\* parse_router_table_from_memory(mem, base_addr, len(packets) - 1): one
\* entry fewer than the table holds
ParseShort ==
    /\ unit_pc = "table_mem"
    /\ Len(unit_in.packets) >= 1
    /\ unit_out' = parse_router_table_from_memory(unit_mid, unit_in.base_addr,
                                                  Len(unit_in.packets) - 1)
    /\ unit_pc' = "table_short"
    /\ UNCHANGED << unit_in, unit_mid, run_vars >>

\* iter_cells_span_from_A_8B(a)
Span8B ==
    /\ unit_pc = "span"
    /\ unit_out' = iter_cells_span_from_A_8B(unit_in.a)
    /\ unit_pc' = "span8_done"
    /\ UNCHANGED << unit_in, unit_mid, run_vars >>

\* iter_cells_span_from_A_1B(a)
Span1B ==
    /\ unit_pc = "span"
    /\ unit_out' = iter_cells_span_from_A_1B(unit_in.a)
    /\ unit_pc' = "span1_done"
    /\ UNCHANGED << unit_in, unit_mid, run_vars >>

\* mem.read_cell(addr): unit_mid is the memory after the call, unit_out
\* [ok, value]
MemReadCell ==
    /\ unit_pc = "read_cell"
    /\ \E r \in { read_cell_call(unit_in.mem, unit_in.addr) } :
         /\ unit_mid' = r.mem
         /\ unit_out' = [ok |-> r.ok, value |-> r.value]
    /\ unit_pc' = "read_cell_done"
    /\ UNCHANGED << unit_in, run_vars >>

\* mem.read_bytes_linear(addr, off, length)
MemReadLinear ==
    /\ unit_pc = "read_bytes_linear"
    /\ \E r \in { read_bytes_linear_call(unit_in.mem, unit_in.addr,
                                          unit_in.off, unit_in.length) } :
         /\ unit_mid' = r.mem
         /\ unit_out' = [ok |-> r.ok, value |-> r.value]
    /\ unit_pc' = "read_bytes_linear_done"
    /\ UNCHANGED << unit_in, run_vars >>

\* mem.write_8B(addr, idx, data): the three checks, then the write
MemWrite8B ==
    /\ unit_pc = "write_8B"
    /\ IF /\ bounds_check_cell(unit_in.addr)
          /\ 0 <= unit_in.idx /\ unit_in.idx <= 3
          /\ Len(unit_in.data) = 8
       THEN /\ unit_mid' = write_8B(unit_in.mem, unit_in.addr, unit_in.idx,
                                    unit_in.data)
            /\ unit_out' = [ok |-> TRUE, value |-> << >>]
       ELSE /\ unit_mid' = unit_in.mem
            /\ unit_out' = [ok |-> FALSE, value |-> << >>]
    /\ unit_pc' = "write_8B_done"
    /\ UNCHANGED << unit_in, run_vars >>

\* a byte write that fetches the cell buffer before it checks the value
MemWrite1BBufferFirst ==
    /\ unit_pc = "write_1B"
    /\ IF /\ bounds_check_cell(unit_in.addr)
          /\ 0 <= unit_in.idx /\ unit_in.idx < MEM_CELL_BYTES
       THEN IF 0 <= unit_in.data /\ unit_in.data <= 255
            THEN /\ unit_mid' = write_1B(unit_in.mem, unit_in.addr,
                                         unit_in.idx, unit_in.data)
                 /\ unit_out' = [ok |-> TRUE, value |-> << >>]
            ELSE /\ unit_mid' = StoreCell(unit_in.mem, unit_in.addr,
                                     read_cell(unit_in.mem, unit_in.addr))
                 /\ unit_out' = [ok |-> FALSE, value |-> << >>]
       ELSE /\ unit_mid' = unit_in.mem
            /\ unit_out' = [ok |-> FALSE, value |-> << >>]
    /\ unit_pc' = "write_1B_done"
    /\ UNCHANGED << unit_in, run_vars >>

\* mem.write_1B(addr, idx, data): the three checks, then the write
MemWrite1B ==
    /\ unit_pc = "write_1B"
    /\ IF /\ bounds_check_cell(unit_in.addr)
          /\ 0 <= unit_in.idx /\ unit_in.idx < MEM_CELL_BYTES
          /\ 0 <= unit_in.data /\ unit_in.data <= 255
       THEN /\ unit_mid' = write_1B(unit_in.mem, unit_in.addr, unit_in.idx,
                                    unit_in.data)
            /\ unit_out' = [ok |-> TRUE, value |-> << >>]
       ELSE /\ unit_mid' = unit_in.mem
            /\ unit_out' = [ok |-> FALSE, value |-> << >>]
    /\ unit_pc' = "write_1B_done"
    /\ UNCHANGED << unit_in, run_vars >>

\* the body of the loop of NoCSimulator.__init__ for one core: the memory
\* is seeded from the image and the queue, and the queue is parsed from it;
\* unit_mid is the cells of the seeded memory that differ from the image,
\* unit_out the parsed queue
SeedCore ==
    /\ unit_pc = "seed"
    /\ \E image \in { ImageOf(unit_in.image) } :
       \E m \in { seed_config_into_memory(image, unit_in.queue) } :
         LET changed == { a \in DOMAIN m :
                            a \notin DOMAIN image \/ m[a] # image[a] }
         IN  /\ unit_mid' = Tabulated([a \in changed |-> m[a]])
             /\ unit_out' = parse_prims_from_memory(m)
    /\ unit_pc' = "seed_done"
    /\ UNCHANGED << unit_in, run_vars >>

UnitNext ==
    \/ SeedCore
    \/ MemReadCell
    \/ MemReadLinear
    \/ MemWrite8B
    \/ MemWrite1B
    \/ Span8B
    \/ Span1B
    \/ EncodePrim
    \/ DecodePrim
    \/ EncodePacket
    \/ DecodePacket
    \/ WriteTable
    \/ ParseTable
    \/ ParseShort

UnitSpec == UnitInit /\ [][UnitNext]_vars

\* ------------------------------------------------------------------------
\* run as a function of the configuration: the result of constructing a
\* simulator from an ArrayConfig of the same grid and running it to the
\* end.  A run state is [mem, pending, indices, stopped, remaining,
\* progressed, ok]; ok is FALSE once a bounds check raised.
\* ------------------------------------------------------------------------
\* the message loop of _execute_send
RECURSIVE SendAll(_, _, _, _, _, _, _)
SendAll(mems, pending, queues, src, sp, entries, msg) ==
    IF msg >= Len(entries)
    THEN [ok |-> TRUE, mems |-> mems, pending |-> pending]
    ELSE LET r == ProcessMessage(mems, pending, queues, src, sp, entries, msg)
         IN  IF ~r.ok THEN r
             ELSE SendAll(r.mems, r.pending, queues, src, sp, entries, msg + 1)

\* _prepare_router_msgs_if_needed, then _execute_send
execute_send(mems, pending, queues, src, sp) ==
    LET m1 == [mems EXCEPT ![src] = prepare_router_msgs_if_needed(@, sp)]
        pr == parse_router_table_from_memory(m1[src], sp.para_addr,
                                             normalized_message_num(sp))
    IN  IF ~pr.ok THEN [ok |-> FALSE, mems |-> m1, pending |-> pending]
        ELSE SendAll(m1, pending, queues, src, sp, pr.entries, 0)

\* the send half, then the recv half
ExecuteHalvesSendFirst(mems, pending, queues, coord, op) ==
    LET r == IF op.send # None
             THEN execute_send(mems, pending, queues, coord, op.send[1])
             ELSE [ok |-> TRUE, mems |-> mems, pending |-> pending]
    IN  IF ~r.ok \/ op.recv = None THEN r
        ELSE execute_recv(r.mems, r.pending, queues, coord, op.recv[1])

\* the recv half, then the send half of a primitive that is not a Stop
ExecuteHalves(mems, pending, queues, coord, op) ==
    LET r == IF op.recv # None
             THEN execute_recv(mems, pending, queues, coord, op.recv[1])
             ELSE [ok |-> TRUE, mems |-> mems, pending |-> pending]
    IN  IF ~r.ok \/ op.send = None THEN r
        ELSE execute_send(r.mems, r.pending, queues, coord, op.send[1])

\* the body of the for loop for one core
VisitCore(S, queues, coord) ==
    IF S.stopped[coord] \/ S.indices[coord] >= Len(queues[coord]) THEN S
    ELSE LET op == FetchOp(queues[coord], S.indices[coord])
             retired == [S EXCEPT !.indices[coord] = NextIndex(@),
                                  !.remaining = @ - 1,
                                  !.progressed = TRUE]
         IN  IF op.kind = "stop"
             THEN [retired EXCEPT !.stopped[coord] = TRUE]
             ELSE LET r == ExecuteHalves(S.mem, S.pending, queues, coord, op)
                  IN  IF r.ok
                      THEN [retired EXCEPT !.mem = r.mems,
                                           !.pending = r.pending]
                      ELSE [S EXCEPT !.mem = r.mems, !.pending = r.pending,
                                     !.ok = FALSE]

\* the for loop over the cores, from the k-th core on
RECURSIVE RunPass(_, _, _)
RunPass(S, queues, k) ==
    IF ~S.ok \/ k >= h * w THEN S
    ELSE RunPass(VisitCore(S, queues, CoordAt(k)), queues, k + 1)

\* the while loop
RECURSIVE RunLoop(_, _)
RunLoop(S, queues) ==
    IF ~S.ok \/ ~LoopContinues(S.remaining) THEN S
    ELSE LET S2 == RunPass([S EXCEPT !.progressed = FALSE], queues, 0)
         IN  IF ~S2.ok \/ PassBreaks(S2.progressed) THEN S2
             ELSE RunLoop(S2, queues)

\* the first p passes of the while loop
RECURSIVE RunPasses(_, _, _)
RunPasses(S, queues, p) ==
    IF p = 0 \/ ~S.ok \/ ~LoopContinues(S.remaining) THEN S
    ELSE LET S2 == RunPass([S EXCEPT !.progressed = FALSE], queues, 0)
         IN  IF ~S2.ok \/ PassBreaks(S2.progressed) THEN S2
             ELSE RunPasses(S2, queues, p - 1)

\* the run state after construction, from the built cores
StartOf(nodes) ==
    [ mem        |-> Tabulated([c \in Coords |-> nodes[c].mem]),
      pending    |-> [c \in Coords |-> EmptyDict],
      indices    |-> [c \in Coords |-> 0],
      stopped    |-> [c \in Coords |-> FALSE],
      remaining  |-> SumLens([c \in Coords |-> nodes[c].prim_queue], Coords),
      progressed |-> FALSE,
      ok         |-> TRUE ]

\* NoCSimulator(cfg).run(): the cores are built once, then run
RunOf(cfg) ==
    CHOOSE T \in
        UNION { { RunLoop(S, queues) :
                    S \in { StartOf(nodes) },
                    queues \in { Tabulated([c \in Coords |->
                                               nodes[c].prim_queue]) } } :
                nodes \in { Tabulated([c \in Coords |->
                               BuiltCoreOf(IF c \in DOMAIN cfg.cores
                                           THEN cfg.cores[c]
                                           ELSE DefaultConfig)]) } } :
        TRUE

\* NoCSimulator(cfg).run() as far as the end of its p-th pass
RunFor(cfg, p) ==
    CHOOSE T \in
        UNION { { RunPasses(S, queues, p) :
                    S \in { StartOf(nodes) },
                    queues \in { Tabulated([c \in Coords |->
                                               nodes[c].prim_queue]) } } :
                nodes \in { Tabulated([c \in Coords |->
                               BuiltCoreOf(IF c \in DOMAIN cfg.cores
                                           THEN cfg.cores[c]
                                           ELSE DefaultConfig)]) } } :
        TRUE

\* ------------------------------------------------------------------------
\* The else branch of run's loop body (recv half, then send half) applied
\* once run has returned, at a core holding buffered payloads, to a
\* primitive with both halves: a Recv of a tag in use and a one-message
\* Send whose source cell is cell 0, where the replay of the buffer lands.
\* Inside run no primitive meets a non-empty buffer of its own tag.
\* ------------------------------------------------------------------------
DualOp(tag) ==
    [ SendOp(0, 0, 48, << Msg(1, 1, 0, 1, 1, 0, FALSE, 9, TRUE) >>, None)
        EXCEPT !.recv = RecvOp(0, tag, None).recv ]

UnitDual ==
    /\ pc = "done"
    /\ \E coord \in Coords : \E tag \in UsedTags :
       \E r \in { ExecuteHalves(mem, pending_by_tag, prim_queue, coord,
                                 DualOp(tag)) } :
         /\ mem' = r.mems
         /\ pending_by_tag' = r.pending
         /\ pc' = IF r.ok THEN "dual_done" ELSE "error"
         /\ recv_call' = Some([dst |-> coord, tag |-> tag,
                               list |-> IF tag \in DOMAIN pending_by_tag[coord]
                                        THEN pending_by_tag[coord][tag]
                                        ELSE << >>])
    /\ UNCHANGED << unit_vars, array_config, h, w, prim_queue, indices,
                    stopped, remaining, progressed, cursor, rtes, msg_idx,
                    pass, trace >>

NextWithDual == Next \/ UnitDual

DualSpec == Init /\ [][NextWithDual]_vars

\* ------------------------------------------------------------------------
\* Observations used by the properties
\* ------------------------------------------------------------------------
\* the primitives core c has executed so far, in execution order
ExecutedBy(c) == SelectSeq(trace, LAMBDA e : e.coord = c)

\* the primitives executed in pass p, in execution order
ExecutedIn(p) == SelectSeq(trace, LAMBDA e : e.pass = p)

\* row-major rank of a coordinate: y ascending, then x ascending
RowMajorRank(c) == c[1] * w + c[2]

\* a run is over when run returned or raised
Returned == pc = "done"

Raised == pc = "error"

\* ------------------------------------------------------------------------
\* C1: every core executes its primitives in queue order: the k-th
\* primitive a core has executed is element k of its parsed prim_queue, so
\* none is skipped, repeated or reordered; the core's index counts them.
\* ------------------------------------------------------------------------
C1_QueueOrder ==
    \A c \in Coords :
        LET done == ExecutedBy(c)
        IN  /\ Len(done) <= Len(prim_queue[c])
            /\ \A k \in 1..Len(done) : done[k].op = prim_queue[c][k]
            /\ Len(done) \in { indices[c], indices[c] + 1 }
            /\ (pc \in {"loop", "pass", "done"}) => Len(done) = indices[c]

\* a finished run in which some core executed two primitives
C1_Witness ==
    /\ Returned
    /\ \E c \in Coords : Len(ExecutedBy(c)) >= 2 /\ indices[c] >= 2

\* ------------------------------------------------------------------------
\* C2: in every pass each core that is eligible (not stopped, index below
\* its queue length) executes exactly one primitive and the others none,
\* the cores come in row-major order, and at the end of a pass all cores
\* that are still eligible have the same index.
\* ------------------------------------------------------------------------
\* core c was eligible when pass p began: it had executed no Stop and fewer
\* primitives than its queue holds
EligibleAtStart(c, p) ==
    LET before == SelectSeq(ExecutedBy(c), LAMBDA e : e.pass < p)
    IN  /\ Len(before) < Len(prim_queue[c])
        /\ \A k \in 1..Len(before) : before[k].op.kind # "stop"

C2_RoundRobin ==
    /\ \A i, j \in 1..Len(trace) :
          i < j =>
            /\ trace[i].pass <= trace[j].pass
            /\ trace[i].pass = trace[j].pass =>
                  RowMajorRank(trace[i].coord) < RowMajorRank(trace[j].coord)
    /\ (pc = "loop" \/ Returned) =>
          /\ \A p \in 1..pass : \A c \in Coords :
                Len(SelectSeq(ExecutedIn(p), LAMBDA e : e.coord = c))
                    = IF EligibleAtStart(c, p) THEN 1 ELSE 0
          /\ \A c \in Coords :
                (~stopped[c] /\ indices[c] < Len(prim_queue[c]))
                    => indices[c] = pass

\* the end of pass 1 with two cores that both stay eligible
C2_Witness ==
    /\ pc = "loop"
    /\ pass = 1
    /\ Len(trace) = 2
    /\ \E c, d \in Coords :
          /\ c # d
          /\ ~stopped[c] /\ indices[c] = 1 /\ Len(prim_queue[c]) > 1
          /\ ~stopped[d] /\ indices[d] = 1 /\ Len(prim_queue[d]) > 1

\* ------------------------------------------------------------------------
\* C3: once a core has executed a Stop its stopped flag stays true, its
\* index stays where it is, and nothing more of its queue is executed: a
\* Stop is the last primitive the core ever executes.
\* ------------------------------------------------------------------------
StopIsLast ==
    \A c \in Coords :
        LET done == ExecutedBy(c)
        IN  \A k \in 1..Len(done) :
                done[k].op.kind = "stop" => k = Len(done) /\ stopped[c]

StoppedStays ==
    \A c \in Coords :
        stopped[c] =>
            /\ stopped'[c]
            /\ indices'[c] = indices[c]
            /\ trace' # trace => trace'[Len(trace')].coord # c

C3_StopIsPermanent == []StopIsLast /\ [][StoppedStays]_vars

\* a finished run in which a stopped core leaves primitives behind while
\* the other one went on executing after the Stop
C3_Witness ==
    /\ Returned
    /\ \E c \in Coords :
          /\ stopped[c]
          /\ indices[c] < Len(prim_queue[c])
          /\ \E i, j \in 1..Len(trace) :
                /\ i < j
                /\ trace[i].coord = c /\ trace[i].op.kind = "stop"
                /\ trace[j].coord # c

\* ------------------------------------------------------------------------
\* C4: run terminates, by returning or by raising a bounds error, and the
\* number of primitives executed over all cores never exceeds the sum of
\* the queue lengths.
\* ------------------------------------------------------------------------
C4_Terminates ==
    /\ <>(Returned \/ Raised)
    /\ [](Len(trace) <= SumLens(prim_queue, Coords))

\* a run that returned because a pass made no progress, with primitives
\* left over
C4_Witness ==
    /\ Returned
    /\ remaining > 0
    /\ ~progressed
    /\ Len(trace) >= 2

\* ------------------------------------------------------------------------
\* C5: a Send that processes an enabled message with HANDSHAKE=1 whose
\* destination queue holds no Recv of the message's tag writes nothing to
\* any memory, appends exactly one entry (mode, RTE snapshot, payload) to
\* the destination's pending list of that tag, and goes on to the next
\* message; for every other enabled message it writes the message into the
\* destination memory and leaves all pending buffers unchanged.  (A step
\* that raises a bounds error ends the run and is not covered.)
\* ------------------------------------------------------------------------
\* the Send in progress and the message it is about to process
SendingCore == trace[Len(trace)].coord

SendingPrim == trace[Len(trace)].op.send[1]

CurrentRte == rtes[msg_idx + 1]

CurrentDst ==
    << (SendingCore[1] + CurrentRte.y) % h, (SendingCore[2] + CurrentRte.x) % w >>

\* the positions of the destination queue holding a Recv of the tag
RecvsOfTag(c, tag) ==
    { i \in 1..Len(prim_queue[c]) :
        prim_queue[c][i].recv # None /\ prim_queue[c][i].recv[1].tag_id = tag }

\* units (cells or bytes) the earlier messages of the table consumed
UnitsBefore ==
    SumPrefix([i \in 1..Len(rtes) |-> IF rtes[i].cnt = 0 THEN 1 ELSE rtes[i].cnt],
              msg_idx)

UnitsOfCurrent == IF CurrentRte.cnt = 0 THEN 1 ELSE CurrentRte.cnt

\* the first unit of the message as it stands in the source memory
FirstSourceCell == read_cell(mem[SendingCore], SendingPrim.send_addr + UnitsBefore)

FirstSourceByte ==
    read_cell(mem[SendingCore],
              SendingPrim.send_addr + (UnitsBefore \div MEM_CELL_BYTES))
        [(UnitsBefore % MEM_CELL_BYTES) + 1]

\* the destination's Recv base for the tag: recv_addr of its first Recv of
\* the tag, 0 when it has none
RecvBase ==
    LET hits == RecvsOfTag(CurrentDst, CurrentRte.tag_id)
    IN  IF hits = {} THEN 0
        ELSE prim_queue[CurrentDst][CHOOSE i \in hits : \A j \in hits : i <= j]
                 .recv[1].recv_addr

HandshakeMiss ==
    CurrentRte.handshake /\ RecvsOfTag(CurrentDst, CurrentRte.tag_id) = {}

\* the step buffered the message: one entry more under the tag at the
\* destination, nothing else changed
BufferedOne ==
    LET tag == CurrentRte.tag_id
        old == IF tag \in DOMAIN pending_by_tag[CurrentDst]
               THEN pending_by_tag[CurrentDst][tag] ELSE << >>
        new == pending_by_tag'[CurrentDst]
    IN  /\ mem' = mem
        /\ \A c \in Coords \ {CurrentDst} : pending_by_tag'[c] = pending_by_tag[c]
        /\ DOMAIN new = DOMAIN pending_by_tag[CurrentDst] \cup {tag}
        /\ \A t \in DOMAIN new \ {tag} : new[t] = pending_by_tag[CurrentDst][t]
        /\ Len(new[tag]) = Len(old) + 1
        /\ SubSeq(new[tag], 1, Len(old)) = old
        /\ new[tag][Len(old) + 1].is_cell_mode = (SendingPrim.cell_or_neuron = 0)
        /\ new[tag][Len(old) + 1].rte_fields = CurrentRte
        /\ IF SendingPrim.cell_or_neuron = 0
           THEN /\ Len(new[tag][Len(old) + 1].payload)
                      = MEM_CELL_BYTES * UnitsOfCurrent
                /\ SubSeq(new[tag][Len(old) + 1].payload, 1, MEM_CELL_BYTES)
                      = FirstSourceCell
           ELSE /\ Len(new[tag][Len(old) + 1].payload) = UnitsOfCurrent
                /\ new[tag][Len(old) + 1].payload[1] = FirstSourceByte

\* the step wrote the message: the first unit's target cell is materialized
\* at the destination, only the destination's memory changed, and no
\* pending buffer changed
WroteDirectly ==
    /\ pending_by_tag' = pending_by_tag
    /\ \A c \in Coords \ {CurrentDst} : mem'[c] = mem[c]
    /\ IF SendingPrim.cell_or_neuron = 0
       THEN (RecvBase + (CurrentRte.a0 \div 4)) \in DOMAIN mem'[CurrentDst]
       ELSE (RecvBase + (CurrentRte.a0 \div MEM_CELL_BYTES))
                \in DOMAIN mem'[CurrentDst]
    /\ UnitsOfCurrent = 1 =>
          IF SendingPrim.cell_or_neuron = 0
          THEN \A k \in 0..3 :
                  LET a == CurrentRte.a0 + k
                  IN  SubSeq(mem'[CurrentDst][RecvBase + (a \div 4)],
                             (a % 4) * 8 + 1, (a % 4) * 8 + 8)
                        = SubSeq(FirstSourceCell, k * 8 + 1, k * 8 + 8)
          ELSE mem'[CurrentDst][RecvBase + (CurrentRte.a0 \div MEM_CELL_BYTES)]
                   [(CurrentRte.a0 % MEM_CELL_BYTES) + 1] = FirstSourceByte

MessageStep ==
    (pc = "send" /\ msg_idx < Len(rtes) /\ pc' = "send") =>
        /\ msg_idx' = msg_idx + 1
        /\ rtes' = rtes
        /\ CurrentRte.en =>
              IF HandshakeMiss THEN BufferedOne ELSE WroteDirectly

C5_BufferOrWrite == [][MessageStep]_vars

\* a Send whose first message (tag 8, handshake, no Recv of tag 8 at the
\* destination) was buffered and whose second message (tag 7, handshake, a
\* Recv of tag 7 at the destination) was written
C5_Witness ==
    /\ pc = "send"
    /\ msg_idx = 2
    /\ rtes[1].en /\ rtes[1].handshake /\ rtes[1].tag_id = 8
    /\ rtes[2].en /\ rtes[2].handshake /\ rtes[2].tag_id = 7
    /\ \E d \in Coords :
          /\ d # SendingCore
          /\ RecvsOfTag(d, 8) = {}
          /\ RecvsOfTag(d, 7) # {}
          /\ 8 \in DOMAIN pending_by_tag[d]
          /\ Len(pending_by_tag[d][8]) = 1
          /\ 7 \notin DOMAIN pending_by_tag[d]
          /\ 64 \in DOMAIN mem[d]

\* ------------------------------------------------------------------------
\* C6: payloads buffered for one (destination, tag) are kept and replayed
\* in arrival order: a list only ever grows at its tail, and when a Recv of
\* the tag replays a list, every byte a payload wrote is final unless a
\* payload buffered after it wrote the same byte (checked for lists whose
\* payloads are one unit each: one cell or one byte).
\* ------------------------------------------------------------------------
\* where byte i (from 0) of a one-unit entry lands at core dst: the cell
\* address and the byte index in the cell
TargetOf(dst, entry, i) ==
    LET hits == RecvsOfTag(dst, entry.rte_fields.tag_id)
        base == IF hits = {} THEN 0
                ELSE prim_queue[dst][CHOOSE k \in hits : \A j \in hits : k <= j]
                         .recv[1].recv_addr
        a0   == entry.rte_fields.a0
    IN  IF entry.is_cell_mode
        THEN << base + ((a0 + (i \div 8)) \div 4),
                ((a0 + (i \div 8)) % 4) * 8 + (i % 8) >>
        ELSE << base + (a0 \div MEM_CELL_BYTES), a0 % MEM_CELL_BYTES >>

OneUnit(entry) ==
    Len(entry.payload) = IF entry.is_cell_mode THEN MEM_CELL_BYTES ELSE 1

OverwrittenLater(dst, list, j, loc) ==
    \E k \in (j + 1)..Len(list) :
        \E i \in 0..(Len(list[k].payload) - 1) : TargetOf(dst, list[k], i) = loc

LastWriterWins ==
    (pc = "drained" /\ recv_call # None) =>
        LET dst  == recv_call[1].dst
            list == recv_call[1].list
        IN  (\A j \in 1..Len(list) : OneUnit(list[j])) =>
                \A j \in 1..Len(list) :
                    \A i \in 0..(Len(list[j].payload) - 1) :
                        LET loc == TargetOf(dst, list[j], i)
                        IN  ~OverwrittenLater(dst, list, j, loc) =>
                                /\ loc[1] \in DOMAIN mem[dst]
                                /\ mem[dst][loc[1]][loc[2] + 1]
                                      = list[j].payload[i + 1]

GrowsAtTail ==
    \A c \in Coords :
        \A t \in DOMAIN pending_by_tag[c] :
            t \in DOMAIN pending_by_tag'[c] =>
                /\ Len(pending_by_tag'[c][t]) >= Len(pending_by_tag[c][t])
                /\ SubSeq(pending_by_tag'[c][t], 1, Len(pending_by_tag[c][t]))
                      = pending_by_tag[c][t]

C6_ArrivalOrder == []LastWriterWins /\ [][GrowsAtTail]_vars

\* a replayed list of at least two one-cell payloads with different bytes
\* for the same cell: the cell holds the newer payload
C6_Witness ==
    /\ pc = "drained"
    /\ recv_call # None
    /\ Len(recv_call[1].list) >= 2
    /\ \A j \in 1..Len(recv_call[1].list) :
          /\ OneUnit(recv_call[1].list[j])
          /\ recv_call[1].list[j].is_cell_mode
          /\ recv_call[1].list[j].rte_fields.a0 = 0
    /\ recv_call[1].list[1].payload
          # recv_call[1].list[Len(recv_call[1].list)].payload
    /\ mem[recv_call[1].dst][0]
          = recv_call[1].list[Len(recv_call[1].list)].payload

\* ------------------------------------------------------------------------
\* C7: no Send blocks, and every payload a Send buffers at (dst, tag) is
\* eventually written into dst's memory by a Recv of that tag executing at
\* dst, which leaves no entry for the tag: so when run has returned, no
\* buffered payload is left in any pending buffer.
\* ------------------------------------------------------------------------
C7_BufferedIsDrained ==
    Returned =>
        \A c \in Coords :
            \A t \in DOMAIN pending_by_tag[c] : pending_by_tag[c][t] = << >>

\* ------------------------------------------------------------------------
\* C8: in scenario S2, at the end of round 1 the payload is held in core
\* (0,1)'s pending buffer under tag 7 and cell 0x40 of core (0,1) is not
\* yet written; at the end of round 2 the buffer is drained and cell 0x40
\* holds the payload.
\* ------------------------------------------------------------------------
C8_S2Rounds ==
    (array_config = S2Config /\ pc = "loop") =>
        /\ pass = 1 =>
              /\ 7 \in DOMAIN pending_by_tag[<< 0, 1 >>]
              /\ Len(pending_by_tag[<< 0, 1 >>][7]) = 1
              /\ pending_by_tag[<< 0, 1 >>][7][1].payload = DataImage[16]
              /\ 64 \notin DOMAIN mem[<< 0, 1 >>]
        /\ pass = 2 =>
              /\ 7 \notin DOMAIN pending_by_tag[<< 0, 1 >>]
              /\ 64 \in DOMAIN mem[<< 0, 1 >>]
              /\ mem[<< 0, 1 >>][64] = DataImage[16]

\* ------------------------------------------------------------------------
\* C10: in every reachable state, from construction on, every cell
\* materialized in any core's memory has an address in [0, N).
\* ------------------------------------------------------------------------
C10_CellsInRange ==
    \A c \in Coords : \A a \in DOMAIN mem[c] : 0 <= a /\ a < num_cells

\* ------------------------------------------------------------------------
\* C9: for a message whose destination queue holds a Recv of the message's
\* tag, the run ends the same whether the message has HANDSHAKE=1 or
\* HANDSHAKE=0.
\* ------------------------------------------------------------------------
\* a configured message of core src can be flipped when the queue of its
\* destination holds a Recv of its tag
DstOf(src, msg) == << (src[1] + msg.y) % h, (src[2] + msg.x) % w >>

Flippable(src, msg) == RecvsOfTag(DstOf(src, msg), msg.tag_id) # {}

FlipMessages(src, messages) ==
    [j \in 1..Len(messages) |->
        IF Flippable(src, messages[j])
        THEN [messages[j] EXCEPT !.handshake = ~messages[j].handshake]
        ELSE messages[j]]

FlipOp(src, op) ==
    IF op.send = None THEN op
    ELSE [op EXCEPT !.send =
             Some([op.send[1] EXCEPT !.messages =
                      FlipMessages(src, op.send[1].messages)])]

FlipQueue(src, queue) == [i \in 1..Len(queue) |-> FlipOp(src, queue[i])]

\* the configuration with the HANDSHAKE bit of every such message flipped
Twin ==
    [array_config EXCEPT !.cores =
        [c \in DOMAIN array_config.cores |->
            [array_config.cores[c] EXCEPT !.prim_queue =
                FlipQueue(c, array_config.cores[c].prim_queue)]]]

\* the cells of core c that hold the router-table packet of a flipped
\* message: packet j (from 0) of a table lies in cell para_addr + j div 2
FlippedTableCells(c) ==
    IF c \notin DOMAIN array_config.cores THEN {}
    ELSE LET queue == array_config.cores[c].prim_queue
         IN  UNION { IF queue[i].send = None THEN {}
                     ELSE { queue[i].send[1].para_addr + ((j - 1) \div 2) :
                              j \in { k \in 1..Len(queue[i].send[1].messages) :
                                        Flippable(c, queue[i].send[1].messages[k]) } } :
                     i \in 1..Len(queue) }

SomethingFlipped == \E c \in Coords : FlippedTableCells(c) # {}

CellMode == SendingPrim.cell_or_neuron = 0

\* byte j (from 0) of the message's source window, as it stands in the
\* source memory: the window starts UnitsBefore units after send_addr
SourceByte(j) ==
    LET o == IF CellMode THEN MEM_CELL_BYTES * UnitsBefore + j
             ELSE UnitsBefore + j
    IN  read_cell(mem[SendingCore],
                  SendingPrim.send_addr + (o \div MEM_CELL_BYTES))
            [(o % MEM_CELL_BYTES) + 1]

SourceWindow ==
    [j \in 1..(IF CellMode THEN MEM_CELL_BYTES * UnitsOfCurrent
               ELSE UnitsOfCurrent) |-> SourceByte(j - 1)]

NumWrites == IF CellMode THEN 4 * UnitsOfCurrent ELSE UnitsOfCurrent

\* the value of A at write n: A0, plus one per earlier write, plus
\* A_OFFSET - 1 for every group of units completed before it
AOfWrite(n) ==
    LET unit == IF CellMode THEN n \div 4 ELSE n
    IN  CurrentRte.a0 + n
        + (unit \div group_size(CurrentRte)) * (CurrentRte.a_offset - 1)

\* the destination cell of write n
CellOfWrite(n) ==
    RecvBase + (AOfWrite(n) \div (IF CellMode THEN 4 ELSE MEM_CELL_BYTES))

\* write n covers byte b (from 0) of cell a
WriteCovers(n, a, b) ==
    /\ CellOfWrite(n) = a
    /\ IF CellMode THEN b \div 8 = AOfWrite(n) % 4
       ELSE b = AOfWrite(n) % MEM_CELL_BYTES

\* the byte write n puts at byte b of its cell
ByteOfWrite(n, b) == IF CellMode THEN SourceByte(8 * n + (b % 8)) ELSE SourceByte(n)

\* the destination memory once writes 0 .. m-1 are made, in order
MemoryAfterWrites(m) ==
    [a \in DOMAIN mem[CurrentDst] \cup { CellOfWrite(n) : n \in 0..(m - 1) } |->
        [i \in 1..MEM_CELL_BYTES |->
            LET hits == { n \in 0..(m - 1) : WriteCovers(n, a, i - 1) }
            IN  IF hits = {} THEN read_cell(mem[CurrentDst], a)[i]
                ELSE ByteOfWrite(CHOOSE n \in hits : \A k \in hits : k <= n,
                                 i - 1)]]

\* ------------------------------------------------------------------------
\* C11: message i of a Send takes its source data from unit offset
\* sum of c_j, j < i, after send_addr (cells in cell mode, bytes in neuron
\* mode), the messages with EN=0 counted: what it writes to the destination,
\* or buffers there, is that window of the source memory.
\* ------------------------------------------------------------------------
SourceIsOffsetWindow ==
    (pc = "send" /\ msg_idx < Len(rtes) /\ pc' = "send" /\ CurrentRte.en) =>
        IF HandshakeMiss
        THEN LET list == pending_by_tag'[CurrentDst][CurrentRte.tag_id]
             IN  list[Len(list)].payload = SourceWindow
        ELSE mem'[CurrentDst] = MemoryAfterWrites(NumWrites)

C11_SourceOffset == [][SourceIsOffsetWindow]_vars

\* two cell-mode messages of CNT 1, the first with EN=0, the second with
\* EN=1: the destination holds source cell send_addr + 1
C11_Witness ==
    /\ pc = "send"
    /\ msg_idx = 2
    /\ Len(rtes) = 2
    /\ ~rtes[1].en /\ rtes[1].cnt = 1
    /\ rtes[2].en /\ rtes[2].cnt = 1 /\ rtes[2].a0 = 0
    /\ SendingPrim.cell_or_neuron = 0
    /\ \E d \in Coords \ { SendingCore } : \E a \in { 0, 64 } :
          /\ a \in DOMAIN mem[d]
          /\ mem[d][a] = read_cell(mem[SendingCore], SendingPrim.send_addr + 1)
          /\ mem[d][a] # read_cell(mem[SendingCore], SendingPrim.send_addr)

\* ------------------------------------------------------------------------
\* C12: a message with EN=0 is skipped silently: the step that processes it
\* changes no memory and no pending buffer and goes on to the next message,
\* whatever its other fields are, those that would lead a write out of the
\* destination memory included.
\* ------------------------------------------------------------------------
SkipsSilently ==
    (pc = "send" /\ msg_idx < Len(rtes) /\ ~CurrentRte.en) =>
        /\ mem' = mem
        /\ pending_by_tag' = pending_by_tag
        /\ pc' = "send"
        /\ msg_idx' = msg_idx + 1
        /\ rtes' = rtes

C12_DisabledIsSkipped == [][SkipsSilently]_vars

\* a skipped first message of two cells whose second cell would have gone
\* to a negative cell address (A_OFFSET = -8 from a base of 0)
C12_Witness ==
    /\ pc = "send"
    /\ msg_idx = 1
    /\ ~rtes[1].en
    /\ rtes[1].cnt = 2
    /\ rtes[1].a0 + 4 + (rtes[1].a_offset - 1) < 0
    /\ RecvsOfTag(<< (SendingCore[1] + rtes[1].y) % h,
                     (SendingCore[2] + rtes[1].x) % w >>, rtes[1].tag_id) = {}

\* ------------------------------------------------------------------------
\* C13: a destination write, of a Send or of a replayed buffer entry, that
\* resolves to a cell address outside [0, N) ends the run with an error at
\* that write: the writes before it are made, that write and the later ones
\* are not, and no step follows, so no later primitive of any core runs.
\* ------------------------------------------------------------------------
CellInRange(a) == a >= 0 /\ a <= num_cells - 1

\* the first write of the message in progress that leaves the memory, or
\* NumWrites when none does
FirstBadWrite ==
    LET bad == { n \in 0..(NumWrites - 1) : ~CellInRange(CellOfWrite(n)) }
    IN  IF bad = {} THEN NumWrites
        ELSE CHOOSE n \in bad : \A k \in bad : n <= k

SendAbortsAtWrite ==
    (pc = "send" /\ msg_idx < Len(rtes) /\ CurrentRte.en /\ ~HandshakeMiss) =>
        IF FirstBadWrite < NumWrites
        THEN /\ pc' = "error"
             /\ mem'[CurrentDst] = MemoryAfterWrites(FirstBadWrite)
             /\ \A c \in Coords \ { CurrentDst } : mem'[c] = mem[c]
             /\ pending_by_tag' = pending_by_tag
             /\ msg_idx' = msg_idx
             /\ indices' = indices
             /\ trace' = trace
        ELSE pc' = "send"

\* write n (from 0) of a buffered entry replayed at core dst resolves to
\* this cell
CellOfReplay(dst, entry, n) ==
    LET rte  == entry.rte_fields
        hits == RecvsOfTag(dst, rte.tag_id)
        base == IF hits = {} THEN 0
                ELSE prim_queue[dst][CHOOSE k \in hits : \A j \in hits : k <= j]
                         .recv[1].recv_addr
        unit == IF entry.is_cell_mode THEN n \div 4 ELSE n
        a    == rte.a0 + n + (unit \div group_size(rte)) * (rte.a_offset - 1)
    IN  base + (a \div (IF entry.is_cell_mode THEN 4 ELSE MEM_CELL_BYTES))

ReplayLeavesMemory(dst, list) ==
    \E j \in 1..Len(list) :
        \E n \in 0..((IF list[j].is_cell_mode THEN Len(list[j].payload) \div 8
                       ELSE Len(list[j].payload)) - 1) :
            ~CellInRange(CellOfReplay(dst, list[j], n))

ReplayAbortsAtWrite ==
    (pc = "done" /\ pc' # "done") =>
        /\ recv_call' # None
        /\ pc' = IF ReplayLeavesMemory(recv_call'[1].dst, recv_call'[1].list)
                 THEN "error" ELSE "drained"
        /\ \A c \in Coords : \A a \in DOMAIN mem'[c] \ DOMAIN mem[c] :
              CellInRange(a)

ErrorIsFinal == pc # "error"

C13_OutOfRangeAborts ==
    /\ [][SendAbortsAtWrite]_vars
    /\ [][ReplayAbortsAtWrite]_vars
    /\ [][ErrorIsFinal]_vars

\* a run that ended with an error in the second cell of a two-cell message
\* (A_OFFSET = -5 leads it to A = -2): the first cell is written, the second
\* cell is not, though its last two segments would have been in range
C13_Witness ==
    /\ pc = "error"
    /\ recv_call = None
    /\ Len(rtes) = 1
    /\ msg_idx = 0
    /\ rtes[1].en /\ ~rtes[1].handshake
    /\ rtes[1].cnt = 2 /\ rtes[1].a0 = 0 /\ rtes[1].a_offset = -5
    /\ \E d \in Coords \ { SendingCore } :
          /\ 0 \in DOMAIN mem[d]
          /\ mem[d][0] = read_cell(mem[SendingCore], SendingPrim.send_addr)
          /\ mem[d][0] # read_cell(mem[SendingCore], SendingPrim.send_addr + 1)
          /\ \A a \in DOMAIN mem[d] : a >= 0

\* ------------------------------------------------------------------------
\* C14: the simulation is deterministic: in no state does run have more
\* than one step to take, and a second run built from the same grid shape,
\* initial memories and configured queues is in the same state at the end
\* of every pass and ends the same way (returned or raised) with identical
\* memories and pending buffers for every core.
\* ------------------------------------------------------------------------
\* the steps run can take in the current state
StepsDue ==
    { k \in 1..7 :
        CASE k = 1 -> pc = "loop"
          [] k = 2 -> pc = "pass" /\ cursor = h * w
          [] k = 3 -> pc = "pass" /\ cursor < h * w /\ ~Eligible(CurCoord)
          [] k = 4 -> /\ pc = "pass" /\ cursor < h * w /\ Eligible(CurCoord)
                      /\ FetchOp(prim_queue[CurCoord], indices[CurCoord]).kind
                            = "stop"
          [] k = 5 -> /\ pc = "pass" /\ cursor < h * w /\ Eligible(CurCoord)
                      /\ FetchOp(prim_queue[CurCoord], indices[CurCoord]).kind
                            # "stop"
          [] k = 6 -> pc = "send" /\ msg_idx < Len(rtes)
          [] k = 7 -> pc = "send" /\ msg_idx = Len(rtes) }

SameAsSecondRun(T) ==
    /\ T.mem = mem
    /\ T.pending = pending_by_tag
    /\ T.indices = indices
    /\ T.stopped = stopped
    /\ T.remaining = remaining

C15_PrimRoundTrip ==
    unit_pc = "prim_done" => unit_out = Some(unit_in)

\* ------------------------------------------------------------------------
\* C16: encode_prim_cell of a Stop gives a cell whose low byte is 0x03 with
\* all other bits zero, and decode_prim_cell of that cell gives a PrimOp of
\* kind stop.
\* ------------------------------------------------------------------------
C16_StopEncoding ==
    (unit_pc \in { "prim_cell", "prim_done" } /\ unit_in.kind = "stop") =>
        /\ unit_mid = StopCell
        /\ unit_pc = "prim_done" =>
              unit_out # None /\ unit_out[1].kind = "stop"

\* ------------------------------------------------------------------------
\* C17: seeding then parsing preserves the configured queue: for a core
\* with empty initial memory, no explicit mem_addr and router tables clear
\* of the primitive cells, the parsed queue has the length of the
\* configured one and, element by element, the same kind and fields.
\* ------------------------------------------------------------------------
\* the fields of a primitive that its cell encodes
EncodedFields(op) ==
    << op.kind,
       IF op.send = None THEN None
       ELSE << op.send[1].deps, op.send[1].cell_or_neuron,
               op.send[1].send_addr, op.send[1].para_addr,
               normalized_message_num(op.send[1]) >>,
       IF op.recv = None THEN None
       ELSE << op.recv[1].deps, op.recv[1].recv_addr, op.recv[1].tag_id,
               op.recv[1].end_num, op.recv[1].mc_y, op.recv[1].mc_x >> >>

PlainlySeeded(c) ==
    /\ c \in DOMAIN array_config.cores
    /\ array_config.cores[c].image = EmptyMem
    /\ \A i \in 1..Len(array_config.cores[c].prim_queue) :
          LET op == array_config.cores[c].prim_queue[i]
          IN  /\ op.mem_addr = None
              /\ op.send # None =>
                    op.send[1].para_addr
                        >= Len(array_config.cores[c].prim_queue)

C17_SeedParsePreserves ==
    \A c \in Coords :
        PlainlySeeded(c) =>
            LET queue == array_config.cores[c].prim_queue
            IN  /\ Len(prim_queue[c]) = Len(queue)
                /\ \A i \in 1..Len(queue) :
                      EncodedFields(prim_queue[c][i]) = EncodedFields(queue[i])

\* ------------------------------------------------------------------------
\* C18: RouterTableEntry.from_packet128(encode_packet_from_fields(f)) gives
\* back exactly the fields f when they are in range, Y and X as signed
\* 6-bit values (-32..31) and A_OFFSET as a signed 12-bit value
\* (-2048..2047).
\* ------------------------------------------------------------------------
C18_RteRoundTrip ==
    unit_pc = "rte_done" =>
        /\ unit_out = unit_in
        /\ unit_out.y \in -32..31
        /\ unit_out.x \in -32..31
        /\ unit_out.a_offset \in -2048..2047

\* an entry with the most negative Y, X and A_OFFSET decoded
C18_Witness ==
    /\ unit_pc = "rte_done"
    /\ unit_in.y = -32 /\ unit_in.x = -32 /\ unit_in.a_offset = -2048
    /\ unit_in.a0 = 16383 /\ unit_in.const_raw = 127
    /\ unit_out.y = -32 /\ unit_out.x = -32 /\ unit_out.a_offset = -2048

TerminatorCell(cell) ==
    \/ \A i \in 1..MEM_CELL_BYTES : cell[i] = 0
    \/ /\ cell[MEM_CELL_BYTES] # 3
       /\ (cell[MEM_CELL_BYTES] \div 16) % 4 = 0

\* among the first n + 1 cells of a memory with n cells one is unmapped
FirstTerminator(m) ==
    CHOOSE k \in 0..Cardinality(DOMAIN m) :
        /\ TerminatorCell(read_cell(m, k))
        /\ \A a \in 0..(k - 1) : ~TerminatorCell(read_cell(m, a))

JustBuilt == pc = "loop" /\ pass = 0

C20_ParseStopsAtTerminator ==
    JustBuilt =>
        \A c \in Coords :
            \E k \in { FirstTerminator(mem[c]) } :
                /\ Len(prim_queue[c]) = k
                /\ \A a \in 0..(k - 1) :
                      Some(prim_queue[c][a + 1])
                          = decode_prim_cell(read_cell(mem[c], a))

\* a core whose cell 1 is a flagless cell of the image and whose cell 2
\* holds a Recv: the queue is the Send of cell 0 alone
C20_Witness ==
    /\ JustBuilt
    /\ \E c \in Coords :
          /\ Len(prim_queue[c]) = 1
          /\ read_cell(mem[c], 1) = FlaglessCell
          /\ decode_prim_cell(read_cell(mem[c], 2)) # None
          /\ decode_prim_cell(read_cell(mem[c], 2))[1].kind = "recv"

\* ------------------------------------------------------------------------
\* C21: the destination core of a message is ((src.y + Y) mod H,
\* (src.x + X) mod W) with a non-negative modulo: for every source core and
\* all Y, X in -32..31 it is a core of the grid, and it is the core an
\* enabled message writes to or is buffered at; on a 3x3 grid source (0,0)
\* with Y = -1, X = -1 targets (2,2).
\* ------------------------------------------------------------------------
\* d is the core of the grid a whole number of turns away from the offset
\* coordinate
IsWrapOf(d, y, x) ==
    /\ d \in Coords
    /\ \E k \in -33..33 : d[1] = y + k * h
    /\ \E k \in -33..33 : d[2] = x + k * w

\* every offset taken from every core lands on a core of the grid (the
\* two coordinates wrap independently: X runs with Y and against it)
WrapStaysInGrid ==
    JustBuilt =>
        \A src \in Coords : \A Y \in -32..31 : \A X \in { Y, -1 - Y } :
            IsWrapOf(wrap_coord(src[1] + Y, src[2] + X), src[1] + Y, src[2] + X)

\* a step of an enabled message changes the memory and the pending buffer
\* of no core but the wrapped one
OnlyWrappedCoreChanges ==
    (pc = "send" /\ msg_idx < Len(rtes) /\ CurrentRte.en) =>
        \A c \in Coords :
            (mem'[c] # mem[c] \/ pending_by_tag'[c] # pending_by_tag[c]) =>
                IsWrapOf(c, SendingCore[1] + CurrentRte.y,
                            SendingCore[2] + CurrentRte.x)

C21_WrappedDestination ==
    /\ []WrapStaysInGrid
    /\ [][OnlyWrappedCoreChanges]_vars

\* on the 3x3 grid the Send of core (0,0) with Y = -1, X = -1 has written
\* its cell to cell 0 of core (2,2) and to no other core
C21_Witness ==
    /\ h = 3 /\ w = 3
    /\ pc = "send" /\ msg_idx = 1
    /\ SendingCore = << 0, 0 >>
    /\ rtes[1].y = -1 /\ rtes[1].x = -1 /\ rtes[1].en /\ ~rtes[1].handshake
    /\ 0 \in DOMAIN mem[<< 2, 2 >>]
    /\ mem[<< 2, 2 >>][0] = mem[<< 0, 0 >>][16]
    /\ \A c \in Coords \ { << 0, 0 >>, << 2, 2 >> } : mem[c] = EmptyMem

\* ------------------------------------------------------------------------
\* C22: scenario S4.  A neuron-mode Send with one message CNT=8, A0=0,
\* CONST=3 (group size 4), A_OFFSET=8 and source bytes A0..A7 writes its
\* first four bytes at byte offsets 0,1,2,3 of destination cell recv_base
\* and its next four bytes at byte offsets 8,9,10,11 of the same cell.
\* As the code has it, the next four bytes go to offsets 11,12,13,14: A is
\* 4 after the first group and the step adds A_OFFSET - 1 = 7.
\* ------------------------------------------------------------------------
\* the S4 message has been sent from core (0,0) to core (0,1)
S4Sent ==
    /\ array_config \in S4Inputs
    /\ pc = "send"
    /\ msg_idx = 1

\* the destination cell of S4: recv_addr of the destination's Recv, or 0
S4Cell == IF Len(prim_queue[<< 0, 1 >>]) = 0 THEN 0 ELSE 64

\* source byte n of S4 stands at byte offset off(n) of the destination cell
S4BytesAt(first, second) ==
    /\ S4Cell \in DOMAIN mem[<< 0, 1 >>]
    /\ \A n \in 0..3 : mem[<< 0, 1 >>][S4Cell][first + n + 1] = 160 + n
    /\ \A n \in 4..7 : mem[<< 0, 1 >>][S4Cell][second + (n - 4) + 1] = 160 + n

C22_S4AsStated == S4Sent => S4BytesAt(0, 8)

\* the second group starts at byte 11; the other bytes of the cell and
\* every other cell of the destination are as they were
C22_S4GroupStride ==
    S4Sent =>
        /\ S4BytesAt(0, 11)
        /\ \A i \in (0..(MEM_CELL_BYTES - 1)) \ ((0..3) \cup (11..14)) :
              mem[<< 0, 1 >>][S4Cell][i + 1] = 0
        /\ \A a \in DOMAIN mem[<< 0, 1 >>] \ { S4Cell } :
              mem[<< 0, 1 >>][a]
                  = BuiltCoreOf(array_config.cores[<< 0, 1 >>]).mem[a]

\* S4 sent to the Recv cell 0x40: A4 stands at byte 11, byte 8 is zero
C22_Witness ==
    /\ S4Sent
    /\ S4Cell = 64
    /\ mem[<< 0, 1 >>][64][1] = 160
    /\ mem[<< 0, 1 >>][64][12] = 164
    /\ mem[<< 0, 1 >>][64][15] = 167
    /\ mem[<< 0, 1 >>][64][9] = 0

\* ------------------------------------------------------------------------
\* C23: a cell-mode message with normalized count c writes exactly 4c
\* 8-byte segments, taken from the source cells in order and from segments
\* 0..3 of each cell; A starts at A0, goes up by 1 after every segment and
\* by A_OFFSET - 1 more after every group_size completed cells; each
\* segment lands at cell recv_base + (A >> 2), segment A & 3.
\* ------------------------------------------------------------------------
\* A at segment n (from 0), step by step
RECURSIVE WalkA(_)
WalkA(n) ==
    IF n = 0 THEN CurrentRte.a0
    ELSE IF n % 4 = 0 /\ (n \div 4) % group_size(CurrentRte) = 0
    THEN WalkA(n - 1) + 1 + (CurrentRte.a_offset - 1)
    ELSE WalkA(n - 1) + 1

\* the destination memory after segments 0 .. n-1; a source cell is read
\* when its first segment is due, from the memory as it then stands
RECURSIVE AfterSegments(_)
AfterSegments(n) ==
    IF n = 0 THEN mem[CurrentDst]
    ELSE LET m    == AfterSegments(n - 1)
             k    == n - 1
             from == IF CurrentDst = SendingCore
                     THEN AfterSegments(4 * (k \div 4))
                     ELSE mem[SendingCore]
             cell == read_cell(from, SendingPrim.send_addr + UnitsBefore
                                     + (k \div 4))
             to   == RecvBase + (WalkA(k) \div 4)
             old  == IF to \in DOMAIN m THEN m[to] ELSE ZeroCell
         IN  (to :> [i \in 1..MEM_CELL_BYTES |->
                        IF (i - 1) \div 8 = WalkA(k) % 4
                        THEN cell[8 * (k % 4) + ((i - 1) % 8) + 1]
                        ELSE old[i]]) @@ m

CellWalk ==
    ( /\ pc = "send" /\ msg_idx < Len(rtes) /\ pc' = "send"
      /\ CurrentRte.en /\ ~HandshakeMiss /\ CellMode ) =>
        /\ mem'[CurrentDst] = AfterSegments(4 * UnitsOfCurrent)
        /\ \A c \in Coords \ { CurrentDst } : mem'[c] = mem[c]

C23_CellModeWalk == [][CellWalk]_vars

\* three cells from A0 = 1 with group size 2 and A_OFFSET 6, base 0x40: the
\* second cell ends in segment 0 of cell 0x42, the third one starts at
\* A = 14, segment 2 of cell 0x43, and ends in segment 1 of cell 0x44
C23_Witness ==
    /\ array_config \in StrideInputs
    /\ pc = "send" /\ msg_idx = 1
    /\ ~rtes[1].handshake
    /\ 68 \in DOMAIN mem[<< 0, 1 >>]
    /\ SubSeq(mem[<< 0, 1 >>][64], 9, 16) = SubSeq(mem[<< 0, 0 >>][16], 1, 8)
    /\ SubSeq(mem[<< 0, 1 >>][66], 1, 8) = SubSeq(mem[<< 0, 0 >>][17], 25, 32)
    /\ SubSeq(mem[<< 0, 1 >>][66], 9, 16) = [i \in 1..8 |-> 0]
    /\ SubSeq(mem[<< 0, 1 >>][67], 17, 24) = SubSeq(mem[<< 0, 0 >>][18], 1, 8)
    /\ SubSeq(mem[<< 0, 1 >>][68], 9, 16) = SubSeq(mem[<< 0, 0 >>][18], 25, 32)

\* ------------------------------------------------------------------------
\* C24: executing one primitive of core c changes only c's own memory and
\* pending buffer and those of the cores its messages target; every other
\* core's memory and pending buffer stay as they are, and in a targeted
\* core only the bytes on the message's address walk change.  In S1 cell
\* 0x40 of core (0,1) becomes equal to cell 0x10 of core (0,0) and
\* everything else is unchanged.
\* ------------------------------------------------------------------------
\* byte b (from 0) of cell a is on the address walk of the message in
\* progress
OnWalk(a, b) == \E n \in 0..(NumWrites - 1) : WriteCovers(n, a, b)

\* a message step: the target alone changes, its memory on the walk only
MessageFrame ==
    /\ \A c \in Coords \ { CurrentDst } :
          mem'[c] = mem[c] /\ pending_by_tag'[c] = pending_by_tag[c]
    /\ IF ~CurrentRte.en THEN mem' = mem /\ pending_by_tag' = pending_by_tag
       ELSE IF HandshakeMiss THEN mem' = mem
       ELSE /\ pending_by_tag' = pending_by_tag
            /\ \A a \in DOMAIN mem'[CurrentDst] :
                 \A b \in 0..(MEM_CELL_BYTES - 1) :
                    OnWalk(a, b)
                    \/ mem'[CurrentDst][a][b + 1]
                          = read_cell(mem[CurrentDst], a)[b + 1]

FrameStep ==
    IF pc = "send" /\ msg_idx < Len(rtes) THEN MessageFrame
    ELSE IF Len(trace') > Len(trace)
    THEN \A c \in Coords \ { trace'[Len(trace')].coord } :
            mem'[c] = mem[c] /\ pending_by_tag'[c] = pending_by_tag[c]
    ELSE mem' = mem /\ pending_by_tag' = pending_by_tag

\* the memory core c was built with
BuiltMem(c) ==
    BuiltCoreOf(IF c \in DOMAIN array_config.cores
                THEN array_config.cores[c] ELSE DefaultConfig).mem

\* S1: nothing but cell 0x40 of core (0,1) ever differs from the memory
\* the cores were built with, no payload is buffered, and when run has
\* returned the cell equals cell 0x10 of core (0,0)
S1Frame ==
    array_config = S1Config =>
        /\ \A c \in Coords :
              /\ \A t \in DOMAIN pending_by_tag[c] : pending_by_tag[c][t] = << >>
              /\ \A a \in DOMAIN mem[c] \cup DOMAIN BuiltMem(c) :
                    (c = << 0, 1 >> /\ a = 64)
                    \/ read_cell(mem[c], a) = read_cell(BuiltMem(c), a)
        /\ Returned =>
              read_cell(mem[<< 0, 1 >>], 64) = read_cell(mem[<< 0, 0 >>], 16)

C24_Frame == [][FrameStep]_vars /\ []S1Frame

\* S1 has returned: cell 0x40 of core (0,1) holds the source cell
C24_Witness ==
    /\ array_config = S1Config
    /\ Returned
    /\ 64 \in DOMAIN mem[<< 0, 1 >>]
    /\ mem[<< 0, 1 >>][64] = DataImage[16]
    /\ mem[<< 0, 0 >>][16] = DataImage[16]

\* ------------------------------------------------------------------------
\* C25: after construction the primitive queue of every core is never
\* changed: it is the queue parsed from the seeded memory and stays so,
\* also when a Send or the replay of a buffer overwrites the cells the
\* primitives were parsed from.
\* ------------------------------------------------------------------------
ParsedFromSeededMemory ==
    JustBuilt =>
        \A c \in Coords : prim_queue[c] = parse_prims_from_memory(mem[c])

QueueKept == prim_queue' = prim_queue

C25_QueueImmutable == []ParsedFromSeededMemory /\ [][QueueKept]_vars

\* a replayed payload stands in cell 0 of a core, where its first
\* primitive was parsed from: the memory now parses to another queue
C25_Witness ==
    /\ pc = "drained"
    /\ \E c \in Coords :
          /\ recv_call[1].dst = c
          /\ Len(recv_call[1].list) >= 1
          /\ Len(prim_queue[c]) >= 1
          /\ read_cell(mem[c], 0) = DataImage[16]
          /\ parse_prims_from_memory(mem[c]) # prim_queue[c]

\* ------------------------------------------------------------------------
\* C26: the destination base cell of every write for tag t at core d is
\* the recv_addr of the first primitive, in queue order, of d's queue that
\* has a Recv half with tag t, whether that Recv has executed or not; when
\* the queue has no such Recv the base is 0.
\* ------------------------------------------------------------------------
\* the queue is gone through from its head
RECURSIVE FirstRecvAddr(_, _)
FirstRecvAddr(queue, tag) ==
    IF Len(queue) = 0 THEN 0
    ELSE IF Head(queue).recv # None /\ Head(queue).recv[1].tag_id = tag
    THEN Head(queue).recv[1].recv_addr
    ELSE FirstRecvAddr(Tail(queue), tag)

\* the cell write n of the message in progress goes to, from that base
CellFromBase(n) ==
    FirstRecvAddr(prim_queue[CurrentDst], CurrentRte.tag_id)
    + (AOfWrite(n) \div (IF CellMode THEN 4 ELSE MEM_CELL_BYTES))

\* a message written directly: the cells of the destination that are new
\* or have changed are cells of its writes, and each write's cell is there
WritesFromBase ==
    ( /\ pc = "send" /\ msg_idx < Len(rtes) /\ pc' = "send"
      /\ CurrentRte.en /\ ~HandshakeMiss ) =>
        /\ \A n \in 0..(NumWrites - 1) : CellFromBase(n) \in DOMAIN mem'[CurrentDst]
        /\ \A a \in DOMAIN mem'[CurrentDst] :
              (a \notin DOMAIN mem[CurrentDst]
               \/ mem'[CurrentDst][a] # mem[CurrentDst][a]) =>
                  \E n \in 0..(NumWrites - 1) : a = CellFromBase(n)

C26_RecvBase == [][WritesFromBase]_vars

\* core (0,1) holds Recvs of tag 7 at 0x40 and at 0x50 and has executed
\* none of them; the Send of core (0,0) has written its cell to 0x40
C26_Witness ==
    /\ pc = "send" /\ msg_idx = 1
    /\ SendingCore = << 0, 0 >>
    /\ indices[<< 0, 1 >>] = 0
    /\ RecvsOfTag(<< 0, 1 >>, rtes[1].tag_id) = { 1, 2 }
    /\ prim_queue[<< 0, 1 >>][1].recv[1].recv_addr = 64
    /\ prim_queue[<< 0, 1 >>][2].recv[1].recv_addr = 80
    /\ 64 \in DOMAIN mem[<< 0, 1 >>]
    /\ 80 \notin DOMAIN mem[<< 0, 1 >>]
    /\ mem[<< 0, 1 >>][64] = DataImage[16]

\* ------------------------------------------------------------------------
\* C27: a cell with both the send and the recv flag set decodes to one
\* PrimOp of kind send that keeps both halves, and it is executed as one
\* queue slot in which the recv half (the replay of the payloads buffered
\* for its tag) is complete before the send half makes any write.
\* ------------------------------------------------------------------------
BothFlags(cell) ==
    cell[MEM_CELL_BYTES] # PRIM_KIND_STOP /\ (cell[MEM_CELL_BYTES] \div 16) % 4 = 3

\* the parsed primitive of a cell with both flags
DecodedWithBothHalves ==
    JustBuilt =>
        \A c \in Coords : \A i \in 1..Len(prim_queue[c]) :
            BothFlags(read_cell(mem[c], i - 1)) =>
                /\ prim_queue[c][i].kind = "send"
                /\ prim_queue[c][i].send # None
                /\ prim_queue[c][i].recv # None

\* in run the step that fetches such a primitive records it once, pops the
\* Recv's tag, writes to no other core and leaves the index for the end of
\* the send half
OneSlot ==
    ( /\ Len(trace') > Len(trace)
      /\ trace'[Len(trace')].op.send # None
      /\ trace'[Len(trace')].op.recv # None ) =>
        \E c \in { trace'[Len(trace')].coord } :
            /\ Len(trace') = Len(trace) + 1
            /\ trace'[Len(trace')].op = prim_queue[c][indices[c] + 1]
            /\ trace'[Len(trace')].op.recv[1].tag_id
                  \notin DOMAIN pending_by_tag'[c]
            /\ indices' = indices
            /\ msg_idx' = 0
            /\ \A d \in Coords \ { c } : mem'[d] = mem[d]

\* the primitive applied to a core with a buffer: the tag is popped, cell 0
\* of the core holds what the last replayed one-cell entry put there, and
\* the cell the send half wrote to the target is that cell 0
RecvHalfFirst ==
    pc = "dual_done" =>
        \E c \in { recv_call[1].dst } :
        \E list \in { recv_call[1].list } :
        \E target \in { << (c[1] + 1) % h, (c[2] + 1) % w >> } :
            /\ recv_call[1].tag \notin DOMAIN pending_by_tag[c]
            /\ read_cell(mem[target], 0) = read_cell(mem[c], 0)
            /\ ( /\ Len(list) >= 1
                 /\ list[Len(list)].is_cell_mode
                 /\ list[Len(list)].rte_fields.a0 = 0
                 /\ Len(list[Len(list)].payload) = MEM_CELL_BYTES
                 /\ target # c ) =>
                    read_cell(mem[target], 0) = list[Len(list)].payload

C27_RecvHalfThenSendHalf ==
    []DecodedWithBothHalves /\ [][OneSlot]_vars /\ []RecvHalfFirst

\* a core whose buffer of tag 7 held one cell: the cell was replayed into
\* its cell 0, which held a primitive, and then sent on to the target
C27_Witness ==
    /\ pc = "dual_done"
    /\ recv_call[1].tag = 7
    /\ Len(recv_call[1].list) = 1
    /\ recv_call[1].list[1].payload = DataImage[16]
    /\ Len(prim_queue[recv_call[1].dst]) >= 1
    /\ BuiltMem(recv_call[1].dst)[0] # DataImage[16]
    /\ read_cell(mem[recv_call[1].dst], 0) = DataImage[16]
    /\ \E target \in Coords \ { recv_call[1].dst } :
          read_cell(mem[target], 0) = DataImage[16]

\* ------------------------------------------------------------------------
\* C28: the replay of a buffered entry and the direct send of the same
\* data
\* ------------------------------------------------------------------------
\* a coordinate outside every grid: the place of the memory that holds a
\* payload as source data
PayloadCore == << -1, -1 >>

\* the payload laid out from cell 0, byte 0, as the source saw it
PayloadMem(entry) ==
    [a \in 0..(((Len(entry.payload) + MEM_CELL_BYTES - 1) \div MEM_CELL_BYTES) - 1) |->
        [i \in 1..MEM_CELL_BYTES |->
            IF a * MEM_CELL_BYTES + i <= Len(entry.payload)
            THEN entry.payload[a * MEM_CELL_BYTES + i] ELSE 0]]

\* the direct path (_send_cell_mode, _send_neuron_mode) given the entry's
\* RTE as it was parsed and a source whose cells from send_addr = 0 hold
\* the payload
DirectEntry(mems, dst, queue, entry) ==
    LET all == [c \in (DOMAIN mems) \cup { PayloadCore } |->
                   IF c = PayloadCore THEN PayloadMem(entry) ELSE mems[c]]
        sp  == SendOp(IF entry.is_cell_mode THEN 0 ELSE 1, 0, 0, << >>,
                      None).send[1]
        r   == IF entry.is_cell_mode
               THEN send_cell_mode(all, PayloadCore, dst, queue, sp,
                                   entry.rte_fields, 0, << >>)
               ELSE send_neuron_mode(all, PayloadCore, dst, queue, sp,
                                     entry.rte_fields, 0, << >>)
    IN  [ok |-> r.ok, mems |-> [c \in DOMAIN mems |-> r.mems[c]]]

RECURSIVE DirectList(_, _, _, _)
DirectList(mems, dst, queue, list) ==
    IF Len(list) = 0 THEN [ok |-> TRUE, mems |-> mems]
    ELSE LET r == DirectEntry(mems, dst, queue, Head(list))
         IN  IF ~r.ok THEN r
             ELSE DirectList(r.mems, dst, queue, Tail(list))

\* the payload of an entry has one cell or one byte per unit of its RTE
PayloadOfRte(entry) ==
    Len(entry.payload) = NormCnt(entry.rte_fields)
        * (IF entry.is_cell_mode THEN MEM_CELL_BYTES ELSE 1)

ReplayAsDirect ==
    (pc = "done" /\ pc' \in {"drained", "error"}) =>
        \E call \in { recv_call'[1] } :
        \E r \in { DirectList(mem, call.dst, prim_queue[call.dst], call.list) } :
            /\ \A j \in 1..Len(call.list) : PayloadOfRte(call.list[j])
            /\ mem' = r.mems
            /\ (pc' = "drained") = r.ok

\* C28: a replay of buffered entries leaves every memory as the direct
\* send path leaves it when it is given the entries' RTEs and payloads in
\* list order, in cell mode and in neuron mode, group steps included, and
\* it fails where the direct path fails
C28_ReplayAsDirect == [][ReplayAsDirect]_vars

\* a replayed neuron-mode entry of eight bytes in groups of four with
\* A_OFFSET = 8: the second group lies at bytes 11..14 of cell 0
C28_Witness ==
    /\ pc = "drained"
    /\ recv_call # None
    /\ Len(recv_call[1].list) = 1
    /\ ~recv_call[1].list[1].is_cell_mode
    /\ recv_call[1].list[1].rte_fields.cnt = 8
    /\ group_size(recv_call[1].list[1].rte_fields) = 4
    /\ recv_call[1].list[1].rte_fields.a_offset = 8
    /\ \A k \in 1..4 :
          /\ read_cell(mem[recv_call[1].dst], 0)[k]
                = recv_call[1].list[1].payload[k]
          /\ read_cell(mem[recv_call[1].dst], 0)[11 + k]
                = recv_call[1].list[1].payload[4 + k]
          /\ recv_call[1].list[1].payload[4 + k] # 0

\* ------------------------------------------------------------------------
\* C29: two packets per cell
\* ------------------------------------------------------------------------
\* cells the table of n entries takes
TableCells(n) == (n + 1) \div 2

\* after the write bit b of entry 2k is bit b of cell base + k and bit b
\* of entry 2k + 1 is bit 128 + b; a missing upper entry leaves zeros; the
\* other cells are as they were
PackedTwoPerCell ==
    unit_pc \in {"table_mem", "table_done", "table_short"} =>
        /\ \A k \in 0..(TableCells(Len(unit_in.packets)) - 1) :
              /\ (unit_in.base_addr + k) \in DOMAIN unit_mid
              /\ \A b \in 0..127 :
                    /\ BitOf(unit_mid[unit_in.base_addr + k], b)
                          = BitOf(unit_in.packets[2 * k + 1], b)
                    /\ BitOf(unit_mid[unit_in.base_addr + k], 128 + b)
                          = IF 2 * k + 2 <= Len(unit_in.packets)
                            THEN BitOf(unit_in.packets[2 * k + 2], b) ELSE 0
        /\ DOMAIN unit_mid = DOMAIN unit_in.mem
              \cup { unit_in.base_addr + k :
                        k \in 0..(TableCells(Len(unit_in.packets)) - 1) }
        /\ \A a \in DOMAIN unit_in.mem :
              ( a < unit_in.base_addr
                \/ a >= unit_in.base_addr + TableCells(Len(unit_in.packets)) )
                  => unit_mid[a] = unit_in.mem[a]

\* the 16 bytes holding bits [127:0] (slot 0) or [255:128] (slot 1)
SlotOfCell(cell, slot) ==
    IF slot = 0 THEN SubSeq(cell, 17, 32) ELSE SubSeq(cell, 1, 16)

\* message_num of the parse that led to the state
ParsedNum ==
    IF unit_pc = "table_short" THEN Len(unit_in.packets) - 1
    ELSE Len(unit_in.packets)

\* entry i (from 0) of a parse of M entries is slot i mod 2 of cell
\* base + i div 2; the parse succeeds when its ceil(M/2) cells are the
\* last cells of the memory; and the memory cut down to those cells gives
\* the same entries
ParsedLowerThenUpper ==
    unit_pc \in {"table_done", "table_short"} =>
        /\ unit_out.ok
        /\ Len(unit_out.entries) = ParsedNum
        /\ \A i \in 0..(ParsedNum - 1) :
              unit_out.entries[i + 1]
                = from_packet128(SlotOfCell(
                      read_cell(unit_mid, unit_in.base_addr + (i \div 2)),
                      i % 2))
        /\ unit_out
              = parse_router_table_from_memory(
                    [a \in { unit_in.base_addr + k :
                               k \in 0..(TableCells(ParsedNum) - 1) } |->
                        unit_mid[a]],
                    unit_in.base_addr, ParsedNum)

\* C29: a written table has entry 2k in bits [127:0] and entry 2k+1 in
\* bits [255:128] of cell base + k; a parse of M entries takes lower then
\* upper from ceil(M/2) cells and leaves out the upper slot of the last
\* cell when M is odd
C29_TwoPerCell == PackedTwoPerCell /\ ParsedLowerThenUpper

\* a table of two different packets in the last but one cell of the
\* memory, parsed with M = 1: the upper slot holds the second packet and
\* the parse returns the first entry only
C29_Witness ==
    /\ unit_pc = "table_short"
    /\ Len(unit_in.packets) = 2
    /\ unit_in.base_addr = num_cells - 2
    /\ unit_in.packets[1] # unit_in.packets[2]
    /\ SlotOfCell(unit_mid[unit_in.base_addr], 1) = unit_in.packets[2]
    /\ SlotOfCell(unit_mid[unit_in.base_addr], 1) # ZeroWord(16)
    /\ unit_out.entries = << from_packet128(unit_in.packets[1]) >>

\* ------------------------------------------------------------------------
\* C30: message_num in the cell and in the message loop
\* ------------------------------------------------------------------------
\* the configured queue of core c went to cells 0, 1, ... in order and no
\* router table was written over them
SeededInOrder(c) ==
    /\ c \in DOMAIN array_config.cores
    /\ \A i \in 1..Len(array_config.cores[c].prim_queue) :
          /\ read_cell(array_config.cores[c].image, i - 1) = ZeroCell
          /\ array_config.cores[c].prim_queue[i].mem_addr = None
          /\ array_config.cores[c].prim_queue[i].send # None =>
                \/ array_config.cores[c].prim_queue[i].send[1].messages = << >>
                \/ array_config.cores[c].prim_queue[i].send[1].para_addr
                      >= Len(array_config.cores[c].prim_queue)

\* after construction the cell of a configured Send with message_num N
\* holds max(N - 1, 0) in bits [183:176] and the parsed Send has
\* message_num stored + 1: N for N in 1..256, 1 for N = 0
StoredMinusOne ==
    \A c \in Coords :
        (JustBuilt /\ SeededInOrder(c)) =>
            \A i \in 1..Len(array_config.cores[c].prim_queue) :
                array_config.cores[c].prim_queue[i].send # None =>
                    \E n \in { array_config.cores[c].prim_queue[i].send[1]
                                   .message_num } :
                        /\ n \in 0..256
                        /\ GetBits(mem[c][i - 1], 176, 8)
                              = IF n = 0 THEN 0 ELSE n - 1
                        /\ prim_queue[c][i].send # None
                        /\ prim_queue[c][i].send[1].message_num
                              = GetBits(mem[c][i - 1], 176, 8) + 1
                        /\ prim_queue[c][i].send[1].message_num
                              = IF n = 0 THEN 1 ELSE n

\* every Send in a queue has a message_num of 1..256
CountInRange ==
    \A c \in Coords : \A i \in 1..Len(prim_queue[c]) :
        prim_queue[c][i].send # None =>
            prim_queue[c][i].send[1].message_num \in 1..256

\* a Send that starts parses message_num entries, entry i (from 0) from
\* slot i mod 2 of cell para_addr + i div 2; the message loop goes through
\* them one by one and the Send ends behind the last one
WalksThatMany ==
    /\ (pc = "pass" /\ pc' = "send") =>
          \E sp \in { trace'[Len(trace')].op.send[1] } :
              /\ Len(rtes') = sp.message_num
              /\ msg_idx' = 0
              /\ \A i \in 0..(Len(rtes') - 1) :
                    rtes'[i + 1]
                      = from_packet128(SlotOfCell(
                            read_cell(mem'[trace'[Len(trace')].coord],
                                      sp.para_addr + (i \div 2)), i % 2))
    /\ (pc = "send" /\ pc' = "send") =>
          /\ msg_idx < Len(rtes)
          /\ msg_idx' = msg_idx + 1
          /\ rtes' = rtes
    /\ (pc = "send" /\ pc' = "pass") =>
          /\ msg_idx = Len(rtes)
          /\ Len(rtes) = SendingPrim.message_num
          /\ indices'[SendingCore] = indices[SendingCore] + 1

\* C30: a Send's cell holds message_num - 1 (0 for a configured 0) and
\* the decoded message_num is the stored value plus one, so 1..256 come
\* back as they are and 0 comes back as 1; an executing Send goes through
\* exactly message_num entries of its router table
C30_MessageNum ==
    []StoredMinusOne /\ []CountInRange /\ [][WalksThatMany]_vars

\* a Send configured with message_num 0 has run: its cell stores 0, it was
\* parsed with message_num 1, and of the three enabled entries of its
\* table only the first was sent
C30_Witness ==
    /\ Returned
    /\ array_config \in CountedInputs
    /\ array_config.cores[<< 0, 0 >>].prim_queue[1].send[1].message_num = 0
    /\ GetBits(mem[<< 0, 0 >>][0], 176, 8) = 0
    /\ prim_queue[<< 0, 0 >>][1].send[1].message_num = 1
    /\ Len(trace) = 1
    /\ read_cell(mem[<< 0, 1 >>], 0) = DataImage[16]
    /\ 1 \notin DOMAIN mem[<< 0, 1 >>]

\* ------------------------------------------------------------------------
\* C31: deps in the primitive cell
\* ------------------------------------------------------------------------
\* the deps the cell of a primitive is to carry (the Recv half is written
\* last)
DepsOf(op) == IF op.recv # None THEN op.recv[1].deps ELSE op.send[1].deps

\* C31: the deps of a Send or Recv is a 16-bit field in bits [23:8] of the
\* cell: every deps of 0..65535 is encoded without error and decoded
\* unchanged
C31_DepsSixteenBits ==
    ( /\ unit_pc \in {"prim_error", "prim_cell", "prim_done"}
      /\ unit_in.kind # "stop"
      /\ DepsOf(unit_in) \in 0..65535 ) =>
        /\ unit_pc # "prim_error"
        /\ GetBits(unit_mid, 8, 16) = DepsOf(unit_in)
        /\ unit_pc = "prim_done" =>
              /\ unit_out # None
              /\ unit_out[1].send # None =>
                    unit_out[1].send[1].deps = DepsOf(unit_in)
              /\ unit_out[1].recv # None =>
                    unit_out[1].recv[1].deps = DepsOf(unit_in)

\* ------------------------------------------------------------------------
\* C32: the two address maps on every integer
\* ------------------------------------------------------------------------
\* C32: for every A, negative ones included, the 8B map gives (d, s) with
\* s in 0..3 and 4 * d + s = A and the 1B map gives (d, b) with b in 0..31
\* and 32 * d + b = A; a negative A gives a negative d
C32_FloorSplit ==
    /\ unit_pc = "span8_done" =>
          /\ unit_out[2] \in 0..3
          /\ 4 * unit_out[1] + unit_out[2] = unit_in.a
          /\ unit_in.a < 0 => unit_out[1] < 0
    /\ unit_pc = "span1_done" =>
          /\ unit_out[2] \in 0..(MEM_CELL_BYTES - 1)
          /\ MEM_CELL_BYTES * unit_out[1] + unit_out[2] = unit_in.a
          /\ unit_in.a < 0 => unit_out[1] < 0

\* A = -5 in 8B units: segment 3 of the cell two below
C32_Witness ==
    /\ unit_pc = "span8_done"
    /\ unit_in.a = -5
    /\ unit_out = << -2, 3 >>

\* ------------------------------------------------------------------------
\* C33, C34, C38: the methods of the memory
\* ------------------------------------------------------------------------
MemReadDone == unit_pc \in {"read_cell_done", "read_bytes_linear_done"}

MemWriteDone == unit_pc \in {"write_8B_done", "write_1B_done"}

\* byte i (from 0) of the window a linear read returns
LinearByte(m, addr, off, i) ==
    read_cell(m, addr + ((off + i) \div MEM_CELL_BYTES))
        [((off + i) % MEM_CELL_BYTES) + 1]

ReadsKeepMemory ==
    MemReadDone => unit_mid = unit_in.mem

ReadsGiveContent ==
    /\ (unit_pc = "read_cell_done" /\ bounds_check_cell(unit_in.addr)) =>
          /\ unit_out.ok
          /\ Len(unit_out.value) = MEM_CELL_BYTES
          /\ unit_out.value = IF unit_in.addr \in DOMAIN unit_in.mem
                              THEN unit_in.mem[unit_in.addr] ELSE ZeroCell
          /\ unit_in.addr \notin DOMAIN unit_in.mem =>
                unit_in.addr \notin DOMAIN unit_mid
    /\ (unit_pc = "read_bytes_linear_done" /\ unit_out.ok) =>
          /\ Len(unit_out.value) = unit_in.length
          /\ \A i \in 0..(unit_in.length - 1) :
                unit_out.value[i + 1]
                  = LinearByte(unit_in.mem, unit_in.addr, unit_in.off, i)

WritesMaterialize ==
    (MemWriteDone /\ unit_out.ok) =>
        DOMAIN unit_mid = (DOMAIN unit_in.mem) \cup { unit_in.addr }

CellsAreWhole ==
    (MemReadDone \/ MemWriteDone) =>
        \A a \in DOMAIN unit_mid : Len(unit_mid[a]) = MEM_CELL_BYTES

\* C33: read_cell and read_bytes_linear leave the memory as it is, an
\* unmapped cell in range reads as 32 zero bytes and stays unmapped; a
\* successful write_8B or write_1B materializes its cell and no other; and
\* every stored cell has 32 bytes
C33_ReadsDoNotAllocate ==
    ReadsKeepMemory /\ ReadsGiveContent /\ WritesMaterialize /\ CellsAreWhole

\* the last cell of an empty memory read: zeros, and the memory is still
\* empty
C33_Witness ==
    /\ unit_pc = "read_cell_done"
    /\ unit_in.mem = EmptyMem
    /\ unit_in.addr = num_cells - 1
    /\ unit_out.ok
    /\ unit_out.value = ZeroCell
    /\ unit_mid = EmptyMem

\* the bytes a successful write replaces: [8 * idx, 8 * idx + 8) for
\* write_8B, idx for write_1B (0-based), with their new values
WrittenByte(i) ==
    IF unit_pc = "write_8B_done"
    THEN IF i >= 8 * unit_in.idx /\ i < 8 * unit_in.idx + 8
         THEN << unit_in.data[i - 8 * unit_in.idx + 1] >> ELSE << >>
    ELSE IF i = unit_in.idx THEN << unit_in.data >> ELSE << >>

\* C34: after a successful write_8B(a, seg, data8) or write_1B(a, i, v)
\* the bytes of the segment, or the byte, hold the data; the other bytes
\* of cell a are as before (zero if the cell was unmapped) and so are all
\* other cells
C34_WriteFrame ==
    (MemWriteDone /\ unit_out.ok) =>
        /\ DOMAIN unit_mid = (DOMAIN unit_in.mem) \cup { unit_in.addr }
        /\ \A a \in DOMAIN unit_mid : \A i \in 0..(MEM_CELL_BYTES - 1) :
              unit_mid[a][i + 1]
                = IF a = unit_in.addr /\ WrittenByte(i) # << >>
                  THEN WrittenByte(i)[1]
                  ELSE read_cell(unit_in.mem, a)[i + 1]

\* segment 3 of a mapped cell written: bytes 24..31 hold the data, byte 23
\* and the neighbouring cell are as they were
C34_Witness ==
    /\ unit_pc = "write_8B_done"
    /\ unit_out.ok
    /\ DOMAIN unit_in.mem = {5, 6}
    /\ unit_in.addr = 5
    /\ unit_in.idx = 3
    /\ SubSeq(unit_mid[5], 25, 32) = unit_in.data
    /\ unit_mid[5][24] = unit_in.mem[5][24]
    /\ unit_mid[5][24] # 0
    /\ unit_mid[6] = unit_in.mem[6]

\* the arguments of the call are all in range
MemArgsInRange ==
    /\ bounds_check_cell(unit_in.addr)
    /\ unit_pc = "write_8B_done" =>
          unit_in.idx \in 0..3 /\ Len(unit_in.data) = 8
    /\ unit_pc = "write_1B_done" =>
          unit_in.idx \in 0..(MEM_CELL_BYTES - 1) /\ unit_in.data \in 0..255

\* C38: write_8B, write_1B and read_cell fail exactly when an argument is
\* out of range (cell address, segment index, byte index, data length,
\* byte value), and a failed call leaves the memory as it was: no cell is
\* materialized and no byte changes
C38_FailedCallKeepsMemory ==
    (MemWriteDone \/ unit_pc = "read_cell_done") =>
        /\ unit_out.ok = MemArgsInRange
        /\ ~unit_out.ok => unit_mid = unit_in.mem

\* write_1B of the value 256 to byte 0 of an unmapped cell in range: the
\* call fails and the memory is still empty
C38_Witness ==
    /\ unit_pc = "write_1B_done"
    /\ ~unit_out.ok
    /\ unit_in.mem = EmptyMem
    /\ unit_in.addr = 0
    /\ unit_in.idx = 0
    /\ unit_in.data = 256
    /\ unit_mid = EmptyMem

\* ------------------------------------------------------------------------
\* Seeding of primitives without mem_addr
\* ------------------------------------------------------------------------
SequentialOps(queue) == SelectSeq(queue, LAMBDA op : op.mem_addr = None)

ExplicitAddrs(queue) ==
    { queue[i].mem_addr[1] : i \in { j \in 1..Len(queue) : queue[j].mem_addr # None } }

\* the last primitive of the queue with the explicit address a
LastExplicit(queue, a) ==
    queue[CHOOSE i \in 1..Len(queue) :
              /\ queue[i].mem_addr = Some(a)
              /\ \A j \in (i + 1)..Len(queue) : queue[j].mem_addr # Some(a)]

NonZeroCells(image) == { a \in DOMAIN image : ~IsZeroWord(image[a]) }

\* the cells the router tables of the inline messages are written to
TableAddrs(queue) ==
    UNION { LET snd == queue[i].send[1]
            IN  snd.para_addr..(snd.para_addr + TableCells(Len(snd.messages)) - 1) :
            i \in { j \in 1..Len(queue) : queue[j].send # None } }

\* the free addresses of the memory, as far as n primitives can need them
FreeAddrs(occupied, n) ==
    LET lim == IF Cardinality(occupied) + n < num_cells
               THEN Cardinality(occupied) + n ELSE num_cells
    IN  { a \in 0..(lim - 1) : a \notin occupied }

\* the j-th free address, counted from 1
NthFree(free, j) == CHOOSE a \in free : Cardinality({ b \in free : b < a }) = j - 1

\* the seeded memory is the image with the cells of `changed` on top
SeededSequentially(image, queue, changed) ==
    LET seq      == SequentialOps(queue)
        explicit == ExplicitAddrs(queue)
        tables   == TableAddrs(queue)
    IN  \E nonzero \in { NonZeroCells(image) } :
        \E free \in { FreeAddrs(nonzero \cup explicit, Len(seq)) } :
          LET placed  == IF Len(seq) < Cardinality(free) THEN Len(seq)
                         ELSE Cardinality(free)
              cell(a) == IF a \in DOMAIN changed THEN changed[a] ELSE image[a]
          IN  /\ \A j \in 1..placed :
                    NthFree(free, j) \notin tables =>
                        /\ NthFree(free, j) \in DOMAIN changed \cup DOMAIN image
                        /\ cell(NthFree(free, j)) = encode_prim_cell(seq[j])
              /\ \A a \in DOMAIN changed :
                    a \in nonzero => a \in explicit \cup tables
              /\ \A a \in explicit \ tables :
                    /\ a \in DOMAIN changed \cup DOMAIN image
                    /\ cell(a) = encode_prim_cell(LastExplicit(queue, a))
              /\ DOMAIN changed \subseteq
                    explicit \cup tables
                    \cup { NthFree(free, j) : j \in 1..placed }

\* C35: in a core built from a configuration the primitives without
\* mem_addr sit, in configuration order, at the lowest addresses from 0 up
\* that are neither non-zero in the initial image nor an explicit mem_addr;
\* the non-zero cells of the image are as they were and the explicit
\* addresses hold the primitive placed there; primitives that find no free
\* address are placed nowhere (cells a router table was written over
\* excepted)
C35_SequentialSeeding ==
    unit_pc = "seed_done" =>
        \E image \in { ImageOf(unit_in.image) } :
            SeededSequentially(image, unit_in.queue, unit_mid)

\* an image whose only free cell is the last one, and two primitives
\* without mem_addr: the first is placed there, the second nowhere
C35_Witness ==
    /\ unit_pc = "seed_done"
    /\ unit_in.image.full
    /\ DOMAIN unit_in.image.cells = {num_cells - 1}
    /\ Len(SequentialOps(unit_in.queue)) = 2
    /\ DOMAIN unit_mid = {0, num_cells - 1}
    /\ unit_mid[num_cells - 1] = encode_prim_cell(unit_in.queue[1])
    /\ unit_mid[0] = encode_prim_cell(unit_in.queue[2])

\* ------------------------------------------------------------------------
\* The state run returns in
\* ------------------------------------------------------------------------
Finished(c) == indices[c] = Len(prim_queue[c])

\* the primitive core c executed last is a Stop
BehindStop(c) ==
    /\ stopped[c]
    /\ indices[c] >= 1
    /\ prim_queue[c][indices[c]].kind = "stop"

\* the for loop is over and the pass executed nothing
PassWithoutProgress == pc = "pass" /\ cursor = h * w /\ ~progressed

\* C36: when run has returned every core is stopped or has executed its
\* whole queue; a pass ends without progress only when no core is eligible
\* (every core stopped or at the end of its queue); a core with primitives
\* left unexecuted at the return has executed a Stop last
C36_ReturnsWhenAllDone ==
    /\ Returned => \A c \in Coords : stopped[c] \/ Finished(c)
    /\ PassWithoutProgress => \A c \in Coords : ~Eligible(c)
    /\ Returned => \A c \in Coords : ~Finished(c) => BehindStop(c)

\* run has returned through a pass without progress, with one core stopped
\* in front of unexecuted primitives and another at the end of its queue
C36_Witness ==
    /\ Returned
    /\ remaining > 0
    /\ ~progressed
    /\ \E c \in Coords : BehindStop(c) /\ ~Finished(c)
    /\ \E c \in Coords : ~stopped[c] /\ Finished(c) /\ indices[c] > 0

\* ------------------------------------------------------------------------
\* Pending buffers during run
\* ------------------------------------------------------------------------
IsPrefix(s, t) == Len(s) <= Len(t) /\ SubSeq(t, 1, Len(s)) = s

NoPendingUnderOwnTag ==
    \A c \in Coords : \A tag \in DOMAIN pending_by_tag[c] :
        RecvsOfTag(c, tag) = {}

\* a step keeps every tag and every entry of every pending buffer
PendingOnlyGrows ==
    \A c \in Coords : \A tag \in DOMAIN pending_by_tag[c] :
        /\ tag \in DOMAIN pending_by_tag'[c]
        /\ IsPrefix(pending_by_tag[c][tag], pending_by_tag'[c][tag])

\* a step that fetches a primitive with a Recv half finds nothing pending
\* under its tag and writes no memory cell for it
RecvFindsNothing ==
    Len(trace') > Len(trace) =>
        LET e == trace'[Len(trace')]
        IN  e.op.recv # None =>
                /\ e.op.recv[1].tag_id \notin DOMAIN pending_by_tag[e.coord]
                /\ pending_by_tag' = pending_by_tag
                /\ \A c \in Coords \ {e.coord} : mem'[c] = mem[c]

\* C37: during run no core's pending buffer has a list under a tag that is
\* the tag_id of a Recv of the core's own queue; every step keeps every
\* buffered entry in place (lists only get longer), and a primitive with a
\* Recv half, when it executes, finds no list under its tag
C37_NothingDrainedInRun ==
    /\ []NoPendingUnderOwnTag
    /\ [][PendingOnlyGrows]_vars
    /\ [][RecvFindsNothing]_vars

\* a core with a Recv that has executed holds a buffered payload (under
\* another tag), and some list holds two entries
C37_Witness ==
    /\ \E c \in Coords :
          /\ \E tag \in DOMAIN pending_by_tag[c] : Len(pending_by_tag[c][tag]) > 0
          /\ \E k \in 1..indices[c] : prim_queue[c][k].recv # None
    /\ \E c \in Coords : \E tag \in DOMAIN pending_by_tag[c] :
          Len(pending_by_tag[c][tag]) >= 2

\* ------------------------------------------------------------------------
\* Messages to a core that has stopped or finished
\* ------------------------------------------------------------------------
\* the destination of the message in progress is another core, stopped or
\* at the end of its queue
DestinationAtRest ==
    /\ CurrentDst # SendingCore
    /\ stopped[CurrentDst] \/ Finished(CurrentDst)

\* the message is processed as any other: it is buffered, or its writes are
\* made in the destination's memory, or a write out of range raises; the
\* destination stays as it is in run's bookkeeping
ReachesCoreAtRest ==
    ( /\ pc = "send" /\ msg_idx < Len(rtes)
      /\ CurrentRte.en /\ DestinationAtRest ) =>
        /\ pc' \in { "send", "error" }
        /\ pc' = "send" =>
              /\ msg_idx' = msg_idx + 1
              /\ IF HandshakeMiss
                 THEN BufferedOne
                 ELSE /\ mem'[CurrentDst] = MemoryAfterWrites(NumWrites)
                      /\ pending_by_tag' = pending_by_tag
        /\ stopped' = stopped
        /\ indices' = indices

\* C39: an enabled message of a Send whose destination is another core
\* that is stopped or at the end of its queue is processed like any other:
\* its payload is appended to the destination's pending list, or its
\* writes are made in the destination's memory
C39_SendReachesCoreAtRest == [][ReachesCoreAtRest]_vars

\* the first Send of the run has written into the memory of a core that
\* had stopped at its first primitive
C39_Witness ==
    /\ pc = "send"
    /\ msg_idx = 1
    /\ rtes[1].en
    /\ LET dst == wrap_coord(SendingCore[1] + rtes[1].y, SendingCore[2] + rtes[1].x)
       IN  /\ dst # SendingCore
           /\ stopped[dst]
           /\ indices[dst] = 1
           /\ \A c \in Coords : \A k \in 1..indices[c] : prim_queue[c][k].send = None
           /\ pending_by_tag[dst] = EmptyDict
           /\ mem[dst] # BuiltMem(dst)


====
